---------------------------- MODULE Spec2Model ----------------------------
(***************************************************************************)
(* A model of the warranty resolution engine of lenovo-warranty-checker:   *)
(* LenovoWarrantyService (cache, structured attempt, scrape fallback,      *)
(* batch chunking with pacing, shared browser session) and of the pure     *)
(* helpers it uses.                                                        *)
(*                                                                         *)
(* Instants and intervals are in seconds: the milliseconds of Date.now()   *)
(* and setTimeout are divided by 1000 (Ms).                                *)
(***************************************************************************)
EXTENDS Integers, Sequences, FiniteSets, TLC

VARIABLES
    now,            \* Date.now()
    cache,          \* this.cache: serial -> [has, v: record, t: expiry instant]
    browser,        \* this.browser: NoBrowser or the id of a launched session
    sessions,       \* every session puppeteer.launch has produced: id -> "live" | "closed"
    pages,          \* open pages: set of [owner: lookup id, session: id]
    lookups,        \* the checkSingleWarranty calls: id -> their locals and position,
                    \* the steps of scrapeWarrantyInfo the call under way has
                    \* entered, and the instant they returned
    apiCalls,       \* serial -> number of structured requests issued (the test double's count)
    scrapeCalls,    \* serial -> number of scrapeWarrantyInfo invocations
    batch,          \* the checkWarrantyBatch call: its locals and position, the instant
                    \* its chunk was issued and the order its lookups completed in
    closer,         \* the cleanup()/closeBrowser call: its position
    fin,            \* input of the pure function under check, or the body of the
                    \* POST /check request
    fout            \* its output, or the response to the request, in a one-element
                    \* sequence, empty before

vars == <<now, cache, browser, sessions, pages, lookups, apiCalls, scrapeCalls,
          batch, closer, fin, fout>>

engineVars == <<now, cache, browser, sessions, pages, lookups, apiCalls,
                scrapeCalls, batch, closer>>

-----------------------------------------------------------------------------
(* Bounds of the model *)

\* longest batch a checkWarrantyBatch call is given
MaxBatch == 3

\* chunk size the engine specifications run checkWarrantyBatch with; the pure
\* chunkArray is checked with the size the source passes (BatchChunkSize)
ChunkSize == 2

\* longest input of chunkArray
MaxChunkInput == 25

\* end dates of the status derivation lie within this many days of today
MaxDays == 46

-----------------------------------------------------------------------------
(* Program constants *)

\* checkWarrantyBatch: this.chunkArray(serialNumbers, 10)
BatchChunkSize == 10

\* checkWarrantyBatch: await this.delay(2000)
ChunkDelayMs == 2000

\* CACHE_TTL = 3600 (seconds)
CACHE_TTL == 3600

\* daysRemaining <= 30
ExpiringSoonDays == 30

\* an interval of n milliseconds
Ms(n) == n \div 1000

\* 1000 * 60 * 60 * 24
DayMs == Ms(1000 * 60 * 60 * 24)

-----------------------------------------------------------------------------
(* Values *)

\* a JavaScript number, NaN or undefined
Num(n) == [k |-> "num", n |-> n]

NaN == [k |-> "NaN", n |-> 0]

UndefNum == [k |-> "undefined", n |-> 0]

\* a date string: one new Date() parses, standing for the instant it denotes;
\* the empty string; a non-empty string new Date() cannot parse; undefined
DateTok(ms) == [k |-> "date", ms |-> ms]

NoDate == [k |-> "empty", ms |-> 0]

BadDate == [k |-> "bad", ms |-> 0]

UndefDate == [k |-> "undefined", ms |-> 0]

Undefined == "undefined"

Min(a, b) == IF a < b THEN a ELSE b

\* JavaScript truthiness of a string value
Truthy(token) == token.k \in {"date", "bad"}

\* new Date(token).getTime(): the instant of a date string, NaN (Invalid Date)
\* for every other value
DateGetTime(token) == IF token.k = "date" THEN Num(token.ms) ELSE NaN

\* a - b, NaN when either is NaN
Minus(a, b) == IF a.k = "num" /\ b.k = "num" THEN Num(a.n - b.n) ELSE NaN

CeilDivFloor(x, d) == IF x.k = "num" THEN Num(x.n \div d) ELSE NaN

\* Math.ceil(x / d) for d > 0, NaN for NaN
CeilDiv(x, d) == IF x.k = "num" THEN Num(-((-(x.n)) \div d)) ELSE NaN

\* a < b and a <= b as JavaScript compares: false when either is NaN
Lt(a, b) == a.k = "num" /\ b.k = "num" /\ a.n < b.n

Le(a, b) == a.k = "num" /\ b.k = "num" /\ a.n <= b.n

\* x || undefined on a string
OrUndefined(x) == IF x = "" THEN Undefined ELSE x

\* token || undefined on a date string
DateOrUndefined(token) == IF Truthy(token) THEN token ELSE UndefDate

-----------------------------------------------------------------------------
(* Status derivation *)

\* the if / else if / else ladder on daysRemaining, the same text on both paths
StatusOfDays(daysRemaining) ==
    IF Lt(daysRemaining, Num(0)) THEN "Expired"
    ELSE IF Le(daysRemaining, Num(ExpiringSoonDays)) THEN "Expiring Soon"
    ELSE "Active"

\* scrapeWarrantyInfo, from "Calculate days remaining" to the returned record,
\* on the fields page.evaluate extracted
ScrapeRecord(serialNumber, warrantyData, today) ==
    LET hasEnd == Truthy(warrantyData.warrantyEndDate)
        daysRemaining ==
            IF hasEnd
            THEN CeilDiv(Minus(DateGetTime(warrantyData.warrantyEndDate), Num(today)), DayMs)
            ELSE UndefNum
        status ==
            IF hasEnd THEN StatusOfDays(daysRemaining)
            ELSE IF warrantyData.errorMessage # "" THEN "Error"
            ELSE "Not Found"
    IN  [serialNumber |-> serialNumber,
         productName |-> OrUndefined(warrantyData.productName),
         warrantyEndDate |-> DateOrUndefined(warrantyData.warrantyEndDate),
         daysRemaining |-> daysRemaining,
         warrantyStatus |-> status,
         errorMessage |-> OrUndefined(warrantyData.errorMessage)]

\* parseApiResponse; data is the payload [status, hasData, product, hasWarranty,
\* endDate] (data.data and data.data.warranty present or not)
parseApiResponse(serialNumber, data, today) ==
    IF ~data.hasData \/ ~data.hasWarranty
    THEN [serialNumber |-> serialNumber,
          productName |-> Undefined,
          warrantyEndDate |-> UndefDate,
          daysRemaining |-> UndefNum,
          warrantyStatus |-> "Not Found",
          errorMessage |-> Undefined]
    ELSE LET daysRemaining ==
                 CeilDiv(Minus(DateGetTime(data.endDate), Num(today)), DayMs)
         IN  [serialNumber |-> serialNumber,
              productName |-> data.product,
              warrantyEndDate |-> data.endDate,
              daysRemaining |-> daysRemaining,
              warrantyStatus |-> StatusOfDays(daysRemaining),
              errorMessage |-> Undefined]

-----------------------------------------------------------------------------
(* chunkArray *)

RECURSIVE ChunkLoop(_, _, _, _)
\* the for loop of chunkArray from index i (0-based) on: slice(i, i + size)
ChunkLoop(array, size, i, chunks) ==
    IF i < Len(array)
    THEN ChunkLoop(array, size, i + size,
                   Append(chunks, SubSeq(array, i + 1, Min(i + size, Len(array)))))
    ELSE chunks

RECURSIVE ChunkLoopDropsTail(_, _, _, _)
ChunkLoopDropsTail(array, size, i, chunks) ==
    IF i + size <= Len(array)
    THEN ChunkLoopDropsTail(array, size, i + size,
                            Append(chunks, SubSeq(array, i + 1, i + size)))
    ELSE chunks

chunkArrayDropsTail(array, size) == ChunkLoopDropsTail(array, size, 0, <<>>)

chunkArray(array, size) == ChunkLoop(array, size, 0, <<>>)

RECURSIVE Flatten(_)
\* results.push(...chunk) over the chunks in order
Flatten(ss) == IF ss = <<>> THEN <<>> ELSE Head(ss) \o Flatten(Tail(ss))

-----------------------------------------------------------------------------
(* The engine: values *)

Serials == {"PF1ABCDE", "PF2FGHIJ"}

\* positions of a batch: lookup i of a checkWarrantyBatch call resolves
\* serialNumbers[i]
BatchIds == 1 .. MaxBatch

\* calls of checkSingleWarranty made directly (GET /check/:serialNumber)
DirectIds == {MaxBatch + 1, MaxBatch + 2}

LookupIds == BatchIds \cup DirectIds

NoBrowser == 0

NoRec ==
    [serialNumber |-> "", productName |-> Undefined, warrantyEndDate |-> UndefDate,
     daysRemaining |-> UndefNum, warrantyStatus |-> "none", errorMessage |-> Undefined]

NoEntry == [has |-> FALSE, v |-> NoRec, t |-> 0]

\* what axios.post does: it throws (network failure, timeout, non-2xx), or
\* resolves with a payload
ApiThrow ==
    [kind |-> "throw", status |-> "", hasData |-> FALSE, product |-> Undefined,
     hasWarranty |-> FALSE, endDate |-> UndefDate]

ApiPayload(status, hasData, hasWarranty, endDate) ==
    [kind |-> "payload", status |-> status, hasData |-> hasData,
     product |-> IF hasData THEN "ThinkPad" ELSE Undefined,
     hasWarranty |-> hasWarranty, endDate |-> endDate]

IdleLookup ==
    [pc |-> "idle", serialNumber |-> "", apiResult |-> NoRec, session |-> NoBrowser,
     err |-> "", ret |-> NoRec, result |-> NoRec, source |-> "", error |-> "",
     trace |-> <<>>, doneAt |-> 0]

IdleBatch ==
    [pc |-> "idle", serialNumbers |-> <<>>, chunks |-> <<>>, k |-> 0,
     results |-> <<>>, delayUntil |-> 0, issuedAt |-> 0, delays |-> 0,
     finished |-> <<>>, returned |-> <<>>]

PageStepsExtractEarly ==
    <<"setUserAgent", "goto", "waitForSelector", "serialInput", "type",
      "submitButton", "evaluate", "waitForNavigation", "waitForTimeout">>

\* the steps of scrapeWarrantyInfo on its page, in order, and the message of the
\* exception each raises when it fails
PageSteps ==
    <<"setUserAgent", "goto", "waitForSelector", "serialInput", "type",
      "submitButton", "waitForNavigation", "waitForTimeout", "evaluate">>

StepMessage(step) ==
    CASE step = "setUserAgent" -> "Protocol error"
      [] step = "goto" -> "Navigation timeout of 30000 ms exceeded"
      [] step = "waitForSelector" -> "Waiting for selector failed: 10000ms exceeded"
      [] step = "serialInput" -> "Serial number input field not found"
      [] step = "type" -> "Node is detached from document"
      [] step = "submitButton" -> "Submit button not found"
      [] step = "waitForNavigation" -> "Navigation timeout of 30000 ms exceeded"
      [] step = "waitForTimeout" -> "Target closed"
      [] step = "evaluate" -> "Execution context was destroyed"

LaunchMessage == "Failed to launch the browser process"

NewPageMessage == "Protocol error (Target.createTarget): Target closed"

ClosePageMessage == "Protocol error (Target.closeTarget): Target closed"

\* the fields page.evaluate extracts
WarrantyData(endDate, errorMessage) ==
    [productName |-> IF Truthy(endDate) THEN "ThinkPad" ELSE "",
     warrantyEndDate |-> endDate, errorMessage |-> errorMessage]

-----------------------------------------------------------------------------
(* The engine: cache and source clients *)

\* NodeCache keeps an entry until its expiry instant t has passed (t < Date.now())
CacheLive(key) == cache[key].has /\ ~(cache[key].t < now)

CacheGetShared(key) ==
    IF CacheLive("PF1ABCDE") THEN cache["PF1ABCDE"].v ELSE NoRec

\* this.cache.get(cacheKey): the value, or NoRec (undefined)
CacheGet(key) == IF CacheLive(key) THEN cache[key].v ELSE NoRec

CacheSetNot(key, v) == cache

CacheSetMerging(key, v) ==
    [cache EXCEPT ![key] =
        [has |-> TRUE,
         v |-> IF cache[key].has
               THEN [v EXCEPT !.productName = cache[key].v.productName,
                              !.warrantyEndDate = cache[key].v.warrantyEndDate]
               ELSE v,
         t |-> now + Ms(CACHE_TTL * 1000)]]

\* this.cache.set(cacheKey, v) with stdTTL = CACHE_TTL seconds
CacheSet(key, v) ==
    [cache EXCEPT ![key] = [has |-> TRUE, v |-> v, t |-> now + Ms(CACHE_TTL * 1000)]]

tryApiMethodAnyStatus(serialNumber, response, today) ==
    IF response.kind = "throw" THEN NoRec
    ELSE IF response.hasData
         THEN parseApiResponse(serialNumber, response, today)
         ELSE NoRec

\* tryApiMethod on what axios.post did: a record, or NoRec (null)
tryApiMethod(serialNumber, response, today) ==
    IF response.kind = "throw" THEN NoRec
    ELSE IF response.status = "success" /\ response.hasData
         THEN parseApiResponse(serialNumber, response, today)
         ELSE NoRec

CaughtAsNotFound(serialNumber, message) ==
    [NoRec EXCEPT !.serialNumber = serialNumber, !.warrantyStatus = "Not Found"]

\* the record checkSingleWarranty's catch block builds
Caught(serialNumber, message) ==
    [NoRec EXCEPT !.serialNumber = serialNumber, !.warrantyStatus = "Error",
                  !.errorMessage = message]

\* sessions launched and not closed
LiveSessions == {b \in 1 .. Len(sessions) : sessions[b] = "live"}

InFlight(ids) == {c \in ids : lookups[c].pc \notin {"idle", "done"}}

-----------------------------------------------------------------------------
(* checkSingleWarranty *)

\* the synchronous part of checkSingleWarranty for the calls asg (lookup id ->
\* serial), made in one turn of the event loop: the cache lookup and, on a miss,
\* the structured request being issued
Called(asg) ==
    [c \in DOMAIN lookups |->
        IF c \in DOMAIN asg
        THEN IF CacheGet(asg[c]) # NoRec
             THEN [IdleLookup EXCEPT !.pc = "done", !.serialNumber = asg[c],
                                     !.result = CacheGet(asg[c]), !.source = "cache",
                                     !.doneAt = now]
             ELSE [IdleLookup EXCEPT !.pc = "api", !.serialNumber = asg[c]]
        ELSE lookups[c]]

ApiCallsAfterCoalesced(asg) ==
    [s \in DOMAIN apiCalls |->
        apiCalls[s] + IF \E c \in DOMAIN asg : asg[c] = s /\ CacheGet(s) = NoRec
                      THEN 1 ELSE 0]

ApiCallsAfterEveryCall(asg) ==
    [s \in DOMAIN apiCalls |->
        apiCalls[s] + Cardinality({c \in DOMAIN asg : asg[c] = s})]

\* the structured requests the calls asg issue, counted per serial
ApiCallsAfter(asg) ==
    [s \in DOMAIN apiCalls |->
        apiCalls[s] + Cardinality({c \in DOMAIN asg : asg[c] = s /\ CacheGet(s) = NoRec})]

\* NodeCache drops an expired entry when get() meets it
CacheAfterGets(asg) ==
    [s \in DOMAIN cache |->
        IF (\E c \in DOMAIN asg : asg[c] = s) /\ ~CacheLive(s) THEN NoEntry ELSE cache[s]]

\* lookup c returns rec, from the return statement source names, error being
\* the message of the exception its catch block caught
Returned(c, rec, source, error) ==
    [lookups EXCEPT ![c] = [@ EXCEPT !.pc = "done", !.result = rec, !.source = source,
                                     !.error = error, !.err = "", !.ret = NoRec,
                                     !.session = NoBrowser, !.trace = <<>>,
                                     !.doneAt = now]]

\* the order in which the lookups of the batch complete
NoteFinished(ids) ==
    [batch EXCEPT !.finished = @ \o ids]

\* a direct call checkSingleWarranty(serialNumber)
CallSingle(c, serialNumber) ==
    /\ c \in DirectIds
    /\ lookups[c].pc = "idle"
    /\ lookups' = Called(c :> serialNumber)
    /\ apiCalls' = ApiCallsAfter(c :> serialNumber)
    /\ cache' = CacheAfterGets(c :> serialNumber)
    /\ UNCHANGED <<now, browser, sessions, pages, scrapeCalls, batch, closer, fin, fout>>

ThrowUnknown(c, message) ==
    /\ lookups' = Returned(c, Caught(lookups[c].serialNumber, "Unknown error"),
                           "catch", message)
    /\ batch' = IF c \in BatchIds THEN NoteFinished(<<c>>) ELSE batch

\* the exception message reaches the catch block of checkSingleWarranty
Throw(c, message) ==
    /\ lookups' = Returned(c, Caught(lookups[c].serialNumber, message), "catch", message)
    /\ batch' = IF c \in BatchIds THEN NoteFinished(<<c>>) ELSE batch

FallsBackAlways(apiResult) == TRUE

\* if (apiResult) { ... return apiResult } is not taken
FallsBack(apiResult) == apiResult = NoRec

\* initBrowser: if (!this.browser)
InitBrowserLaunches == browser = NoBrowser

\* the structured request of lookup c ends; without a record the lookup goes on
\* into scrapeWarrantyInfo: initBrowser, then newPage on this.browser
ApiDone(c, response) ==
    /\ lookups[c].pc = "api"
    /\ LET serialNumber == lookups[c].serialNumber
           apiResult == tryApiMethod(serialNumber, response, now)
       IN  IF ~FallsBack(apiResult)
           THEN /\ cache' = CacheSet(serialNumber, apiResult)
                /\ lookups' = [Returned(c, apiResult, "api", "") EXCEPT
                                  ![c].apiResult = apiResult]
                /\ batch' = IF c \in BatchIds THEN NoteFinished(<<c>>) ELSE batch
                /\ UNCHANGED scrapeCalls
           ELSE /\ scrapeCalls' = [scrapeCalls EXCEPT ![serialNumber] = @ + 1]
                /\ lookups' = [lookups EXCEPT ![c] =
                       IF InitBrowserLaunches
                       THEN [@ EXCEPT !.pc = "launch", !.apiResult = apiResult,
                                      !.trace = <<"initBrowser">>]
                       ELSE [@ EXCEPT !.pc = "newPage", !.apiResult = apiResult,
                                      !.session = browser,
                                      !.trace = <<"initBrowser", "newPage">>]]
                /\ UNCHANGED <<cache, batch>>
    /\ UNCHANGED <<now, browser, sessions, pages, apiCalls, closer, fin, fout>>

\* puppeteer.launch of lookup c ends: this.browser is assigned the new session
\* and the lookup asks it for a page, or the launch failure is thrown
LaunchDone(c, ok) ==
    /\ lookups[c].pc = "launch"
    /\ IF ok
       THEN /\ sessions' = Append(sessions, "live")
            /\ browser' = Len(sessions) + 1
            /\ lookups' = [lookups EXCEPT ![c] =
                              [@ EXCEPT !.pc = "newPage", !.session = Len(sessions) + 1,
                                        !.trace = Append(@, "newPage")]]
            /\ UNCHANGED batch
       ELSE /\ Throw(c, LaunchMessage)
            /\ UNCHANGED <<browser, sessions>>
    /\ UNCHANGED <<now, cache, pages, apiCalls, scrapeCalls, closer, fin, fout>>

\* this.browser.newPage() of lookup c ends
NewPageDone(c, ok) ==
    /\ lookups[c].pc = "newPage"
    /\ sessions[lookups[c].session] = "closed" => ~ok
    /\ IF ok
       THEN /\ pages' = pages \cup {[owner |-> c, session |-> lookups[c].session]}
            /\ lookups' = [lookups EXCEPT ![c] = [@ EXCEPT !.pc = "steps"]]
            /\ UNCHANGED batch
       ELSE /\ Throw(c, NewPageMessage)
            /\ UNCHANGED pages
    /\ UNCHANGED <<now, cache, browser, sessions, apiCalls, scrapeCalls, closer, fin, fout>>

\* the steps the try block enters when step failAt fails (0: none does), and
\* page.close() of its finally block
StepsEntered(failAt) ==
    (IF failAt = 0 THEN PageSteps ELSE SubSeq(PageSteps, 1, failAt)) \o <<"close">>

\* the try block of scrapeWarrantyInfo on the page of lookup c: step failAt
\* fails (0: none does, and the record is built from the extracted fields)
RunPage(c, failAt, warrantyData) ==
    /\ lookups[c].pc = "steps"
    /\ failAt \in 0 .. Len(PageSteps)
    /\ sessions[lookups[c].session] = "closed" => failAt # 0
    /\ lookups' = [lookups EXCEPT ![c] =
           IF failAt = 0
           THEN [@ EXCEPT !.pc = "close", !.trace = @ \o StepsEntered(failAt),
                          !.ret = ScrapeRecord(lookups[c].serialNumber, warrantyData, now)]
           ELSE [@ EXCEPT !.pc = "close", !.trace = @ \o StepsEntered(failAt),
                          !.err = StepMessage(PageSteps[failAt])]]
    /\ UNCHANGED <<now, cache, browser, sessions, pages, apiCalls, scrapeCalls, batch,
                   closer, fin, fout>>

ClosePageInTryOnly(c, ok) ==
    /\ lookups[c].pc = "close"
    /\ pages' = IF ok /\ lookups[c].err = "" THEN {p \in pages : p.owner # c} ELSE pages
    /\ LET message == IF lookups[c].err # "" THEN lookups[c].err
                      ELSE IF ok THEN "" ELSE ClosePageMessage
       IN  IF message # ""
           THEN /\ Throw(c, message)
                /\ UNCHANGED cache
           ELSE /\ cache' = CacheSet(lookups[c].serialNumber, lookups[c].ret)
                /\ lookups' = Returned(c, lookups[c].ret, "scrape", "")
                /\ batch' = IF c \in BatchIds THEN NoteFinished(<<c>>) ELSE batch
    /\ UNCHANGED <<now, browser, sessions, apiCalls, scrapeCalls, closer, fin, fout>>

ClosePageCachingCaught(c, ok) ==
    /\ lookups[c].pc = "close"
    /\ pages' = IF ok THEN {p \in pages : p.owner # c} ELSE pages
    /\ LET message == IF ok THEN lookups[c].err ELSE ClosePageMessage
       IN  IF message # ""
           THEN /\ Throw(c, message)
                /\ cache' = CacheSet(lookups[c].serialNumber,
                                     Caught(lookups[c].serialNumber, message))
           ELSE /\ cache' = CacheSet(lookups[c].serialNumber, lookups[c].ret)
                /\ lookups' = Returned(c, lookups[c].ret, "scrape", "")
                /\ batch' = IF c \in BatchIds THEN NoteFinished(<<c>>) ELSE batch
    /\ UNCHANGED <<now, browser, sessions, apiCalls, scrapeCalls, closer, fin, fout>>

\* finally { await page.close() }, then the return of scrapeWarrantyInfo into
\* checkSingleWarranty: cache.set and return, or the catch block
ClosePage(c, ok) ==
    /\ lookups[c].pc = "close"
    /\ pages' = IF ok THEN {p \in pages : p.owner # c} ELSE pages
    /\ LET message == IF ok THEN lookups[c].err ELSE ClosePageMessage
       IN  IF message # ""
           THEN /\ Throw(c, message)
                /\ UNCHANGED cache
           ELSE /\ cache' = CacheSet(lookups[c].serialNumber, lookups[c].ret)
                /\ lookups' = Returned(c, lookups[c].ret, "scrape", "")
                /\ batch' = IF c \in BatchIds THEN NoteFinished(<<c>>) ELSE batch
    /\ UNCHANGED <<now, browser, sessions, apiCalls, scrapeCalls, closer, fin, fout>>

-----------------------------------------------------------------------------
(* checkWarrantyBatch *)

\* chunk.map(serial => this.checkSingleWarranty(serial)): the calls of a chunk,
\* lookup offset + i resolving chunk[i]
ChunkAsg(chunk, offset) ==
    [c \in (offset + 1) .. (offset + Len(chunk)) |-> chunk[c - offset]]

\* the lookups of the chunk the batch is waiting for
CurrentIds ==
    IF batch.pc = "chunk"
    THEN (Len(batch.results) + 1) .. (Len(batch.results) + Len(batch.chunks[batch.k]))
    ELSE {}

ChunkResultsFailTogether ==
    [i \in 1 .. Len(batch.chunks[batch.k]) |->
        IF \E c \in CurrentIds : lookups[c].error # ""
        THEN Caught(lookups[Len(batch.results) + i].serialNumber, "batch failed")
        ELSE lookups[Len(batch.results) + i].result]

ChunkResultsAsFinished ==
    [i \in 1 .. Len(batch.chunks[batch.k]) |-> lookups[batch.finished[i]].result]

\* what Promise.all resolves with: the records of the chunk's lookups by index
ChunkResults ==
    [i \in 1 .. Len(batch.chunks[batch.k]) |-> lookups[Len(batch.results) + i].result]

DelayElapsedAtOnce == TRUE

\* delay(ms): the timer set when the chunk completed has fired
DelayElapsed == now >= batch.delayUntil

\* the batch b issues chunk k of its chunks
IssueChunk(b, k) ==
    LET asg == ChunkAsg(b.chunks[k], Len(b.results))
        ids == [i \in 1 .. Len(b.chunks[k]) |-> Len(b.results) + i]
    IN  /\ lookups' = Called(asg)
        /\ apiCalls' = ApiCallsAfter(asg)
        /\ cache' = CacheAfterGets(asg)
        /\ batch' = [b EXCEPT !.pc = "chunk", !.k = k, !.issuedAt = now,
                              !.finished = SelectSeq(ids, LAMBDA c : CacheGet(asg[c]) # NoRec)]

\* checkWarrantyBatch(serialNumbers) up to its first await
BatchStart(serialNumbers) ==
    /\ batch.pc = "idle"
    /\ LET b == [IdleBatch EXCEPT !.serialNumbers = serialNumbers,
                                  !.chunks = chunkArray(serialNumbers, ChunkSize)]
       IN  IF b.chunks = <<>>
           THEN /\ batch' = [b EXCEPT !.pc = "done"]
                /\ UNCHANGED <<lookups, apiCalls, cache>>
           ELSE IssueChunk(b, 1)
    /\ UNCHANGED <<now, browser, sessions, pages, scrapeCalls, closer>>

\* a call of checkWarrantyBatch made on the service itself
BatchCall(serialNumbers) ==
    /\ BatchStart(serialNumbers)
    /\ UNCHANGED <<fin, fout>>

ChunkDoneNoLastDelay ==
    /\ batch.pc = "chunk"
    /\ \A c \in CurrentIds : lookups[c].pc = "done"
    /\ batch' = IF batch.k < Len(batch.chunks)
                THEN [batch EXCEPT !.pc = "delay", !.results = @ \o ChunkResults,
                                   !.delayUntil = now + Ms(ChunkDelayMs), !.delays = @ + 1]
                ELSE [batch EXCEPT !.pc = "done", !.results = @ \o ChunkResults,
                                   !.returned = batch.results \o ChunkResults]
    /\ UNCHANGED <<now, cache, browser, sessions, pages, lookups, apiCalls, scrapeCalls,
                   closer, fin, fout>>

\* Promise.all of the chunk resolves: results.push(...chunkResults), then delay
ChunkDone ==
    /\ batch.pc = "chunk"
    /\ \A c \in CurrentIds : lookups[c].pc = "done"
    /\ batch' = [batch EXCEPT !.pc = "delay", !.results = @ \o ChunkResults,
                              !.delayUntil = now + Ms(ChunkDelayMs), !.delays = @ + 1]
    /\ UNCHANGED <<now, cache, browser, sessions, pages, lookups, apiCalls, scrapeCalls,
                   closer, fin, fout>>

DelayDoneReturnsEarly ==
    /\ batch.pc = "delay"
    /\ DelayElapsed
    /\ batch' = [batch EXCEPT !.pc = "done", !.returned = batch.results]
    /\ UNCHANGED <<lookups, apiCalls, cache>>
    /\ UNCHANGED <<now, browser, sessions, pages, scrapeCalls, closer, fin, fout>>

\* the delay ends: the next chunk is issued, or the batch returns its results
DelayDone ==
    /\ batch.pc = "delay"
    /\ DelayElapsed
    /\ IF batch.k < Len(batch.chunks)
       THEN IssueChunk(batch, batch.k + 1)
       ELSE /\ batch' = [batch EXCEPT !.pc = "done", !.returned = batch.results]
            /\ UNCHANGED <<lookups, apiCalls, cache>>
    /\ UNCHANGED <<now, browser, sessions, pages, scrapeCalls, closer, fin, fout>>

\* time passes
Tick(d) ==
    /\ now' = now + d
    /\ UNCHANGED <<cache, browser, sessions, pages, lookups, apiCalls, scrapeCalls,
                   batch, closer, fin, fout>>

-----------------------------------------------------------------------------
(* Specifications of the engine *)

\* the service after its constructor ran
InitService ==
    /\ now = 0
    /\ cache = [s \in Serials |-> NoEntry]
    /\ browser = NoBrowser
    /\ sessions = <<>>
    /\ pages = {}
    /\ lookups = [c \in LookupIds |-> IdleLookup]
    /\ apiCalls = [s \in Serials |-> 0]
    /\ scrapeCalls = [s \in Serials |-> 0]
    /\ batch = IdleBatch
    /\ closer = [pc |-> "idle", target |-> NoBrowser]

InitEngine == InitService /\ fin = <<>> /\ fout = <<>>

SeqsUpTo(S, n) == UNION {[1 .. m -> S] : m \in 0 .. n}

\* what the sources do in the batch specification: the structured request
\* fails or answers with a warranty; the browser launches and opens its page; a
\* page runs to the end or its navigation times out (the lookup specification
\* has every outcome)
BatchResponses ==
    {ApiThrow, ApiPayload("success", TRUE, TRUE, DateTok(45 * DayMs))}

BatchPages == {WarrantyData(DateTok(10 * DayMs), "")}

BatchFailures == {0, 2}

\* the batch specification lets time pass until every delay of the batch can
\* have elapsed
BatchHorizon == Len(batch.chunks) * Ms(ChunkDelayMs)

NextBatch ==
    \/ \E serialNumbers \in SeqsUpTo(Serials, MaxBatch) : BatchCall(serialNumbers)
    \/ ChunkDone
    \/ DelayDone
    \/ \E c \in BatchIds, response \in BatchResponses : ApiDone(c, response)
    \/ \E c \in BatchIds : LaunchDone(c, TRUE)
    \/ \E c \in BatchIds : NewPageDone(c, TRUE)
    \/ \E c \in BatchIds, failAt \in BatchFailures, warrantyData \in BatchPages :
          RunPage(c, failAt, warrantyData)
    \/ \E c \in BatchIds : ClosePage(c, TRUE)
    \/ now < BatchHorizon /\ Tick(1)

SpecBatch == InitEngine /\ [][NextBatch]_vars

\* what the sources do in the lookup specification: every shape of answer of
\* the structured request (a failure; a payload without success status, without
\* data, without warranty, without end date; a warranty that runs or has run
\* out), every failure of the browser and of the page, a page without end date,
\* with an end-date token that does not parse, with an end date
LookupResponses ==
    {ApiThrow,
     ApiPayload("error", FALSE, FALSE, UndefDate),
     ApiPayload("success", FALSE, FALSE, UndefDate),
     ApiPayload("success", TRUE, FALSE, UndefDate),
     ApiPayload("success", TRUE, TRUE, DateTok(45 * DayMs)),
     ApiPayload("success", TRUE, TRUE, DateTok(-DayMs)),
     ApiPayload("error", TRUE, TRUE, DateTok(45 * DayMs)),
     ApiPayload("success", TRUE, TRUE, UndefDate)}

LookupPages ==
    {WarrantyData(endDate, errorMessage) :
        endDate \in {NoDate, BadDate, DateTok(10 * DayMs)},
        errorMessage \in {"", "No warranty found"}}

\* time passes in halves of the cache's time to live, up to twice that time
NextLookup ==
    \/ \E c \in DirectIds, serialNumber \in Serials : CallSingle(c, serialNumber)
    \/ \E c \in DirectIds, response \in LookupResponses : ApiDone(c, response)
    \/ \E c \in DirectIds, ok \in BOOLEAN : LaunchDone(c, ok)
    \/ \E c \in DirectIds, ok \in BOOLEAN : NewPageDone(c, ok)
    \/ \E c \in DirectIds, failAt \in 0 .. Len(PageSteps), warrantyData \in LookupPages :
          RunPage(c, failAt, warrantyData)
    \/ \E c \in DirectIds, ok \in BOOLEAN : ClosePage(c, ok)
    \/ now < 2 * CACHE_TTL /\ Tick(CACHE_TTL \div 2)

SpecLookup == InitEngine /\ [][NextLookup]_vars

-----------------------------------------------------------------------------
(* Specification of chunkArray(array, 10) *)

\* arrays of every length up to MaxChunkInput: of distinct elements, of
\* repeating elements, of one element
ChunkInputs ==
    {[i \in 1 .. n |-> i] : n \in 0 .. MaxChunkInput}
    \cup {[i \in 1 .. n |-> i % 3] : n \in 0 .. MaxChunkInput}
    \cup {[i \in 1 .. n |-> 0] : n \in 0 .. MaxChunkInput}

InitChunk ==
    /\ InitService
    /\ fin \in {[array |-> a, size |-> BatchChunkSize] : a \in ChunkInputs}
    /\ fout = <<>>

RunChunkArray ==
    /\ fout = <<>>
    /\ fout' = <<chunkArray(fin.array, fin.size)>>
    /\ UNCHANGED <<engineVars, fin>>

SpecChunk == InitChunk /\ [][RunChunkArray]_vars

-----------------------------------------------------------------------------
(* Specification of the status derivation of scrapeWarrantyInfo *)

\* end dates within MaxDays days of today, on a day boundary and a second
\* before and after it; no end date; an end date that does not parse
ClassifyDates(today) ==
    {NoDate, BadDate}
    \cup {DateTok(today + d * DayMs + f) : d \in (-MaxDays) .. MaxDays, f \in {-1, 0, 1}}

InitClassify ==
    /\ InitService
    /\ \E today \in {0, DayMs \div 2} :
          fin \in {[serialNumber |-> "PF1ABCDE", today |-> today,
                    warrantyData |-> WarrantyData(endDate, errorMessage)] :
                       endDate \in ClassifyDates(today),
                       errorMessage \in {"", "No warranty found"}}
    /\ fout = <<>>

RunClassify ==
    /\ fout = <<>>
    /\ fout' = <<ScrapeRecord(fin.serialNumber, fin.warrantyData, fin.today)>>
    /\ UNCHANGED <<engineVars, fin>>

SpecClassify == InitClassify /\ [][RunClassify]_vars

-----------------------------------------------------------------------------
(* Claims *)

\* C7: on the scrape path, no end date with an error indicator gives Error and
\* no end date without one gives Not Found; with an end date daysRemaining is
\* the ceiling of (endDate - now) in days, and the status is Expired below 0,
\* Expiring Soon from 0 to 30, Active above 30 (today + 45 days is Active,
\* today + 10 days Expiring Soon, yesterday Expired)
C7_StatusDerivation ==
    fout # <<>> =>
        LET r == fout[1]
            endDate == fin.warrantyData.warrantyEndDate
            days == r.daysRemaining
            diff == endDate.ms - fin.today
        IN  /\ (~Truthy(endDate) /\ fin.warrantyData.errorMessage # "")
                  => r.warrantyStatus = "Error"
            /\ (~Truthy(endDate) /\ fin.warrantyData.errorMessage = "")
                  => r.warrantyStatus = "Not Found"
            /\ endDate.k = "date" =>
                  /\ days.k = "num"
                  /\ days.n * DayMs >= diff
                  /\ (days.n - 1) * DayMs < diff
                  /\ diff = 45 * DayMs => r.warrantyStatus = "Active"
                  /\ diff = 10 * DayMs => r.warrantyStatus = "Expiring Soon"
                  /\ diff = -DayMs => r.warrantyStatus = "Expired"
            /\ Truthy(endDate) =>
                  /\ (days.k = "num" /\ days.n < 0) => r.warrantyStatus = "Expired"
                  /\ (days.k = "num" /\ 0 <= days.n /\ days.n <= 30)
                        => r.warrantyStatus = "Expiring Soon"
                  /\ (days.k = "num" /\ days.n > 30) => r.warrantyStatus = "Active"

\* the derivation ran on an end date a second less than 30 days ahead, which
\* the ceiling makes day 30: Expiring Soon
C7_Witness ==
    /\ fout # <<>>
    /\ fin.warrantyData.warrantyEndDate = DateTok(fin.today + 30 * DayMs - 1)
    /\ fout[1].daysRemaining = Num(30)
    /\ fout[1].warrantyStatus = "Expiring Soon"

\* C9: chunkArray(input, 10) yields ceil(n / 10) chunks, each but the last of
\* exactly 10 elements, the last of 1 to 10, none empty, and the chunks
\* concatenated in order are the input
C9_Chunking ==
    fout # <<>> =>
        LET chunks == fout[1]
            n == Len(fin.array)
        IN  /\ fin.size = 10
            /\ Len(chunks) = (n + 9) \div 10
            /\ \A k \in 1 .. Len(chunks) - 1 : Len(chunks[k]) = 10
            /\ chunks # <<>> =>
                  Len(chunks[Len(chunks)]) \in 1 .. 10
            /\ \A k \in 1 .. Len(chunks) : chunks[k] # <<>>
            /\ Flatten(chunks) = fin.array

\* a batch of 25 gave chunks of sizes 10, 10, 5
C9_Witness ==
    /\ fout # <<>>
    /\ fin.array = [i \in 1 .. 25 |-> i]
    /\ Len(fout[1]) = 3
    /\ <<Len(fout[1][1]), Len(fout[1][2]), Len(fout[1][3])>> = <<10, 10, 5>>


Statuses == {"Active", "Expired", "Expiring Soon", "Error", "Not Found"}

\* a step of the direct call c, whatever the sources do
LookupStep(c) ==
    \/ \E response \in LookupResponses : ApiDone(c, response)
    \/ \E ok \in BOOLEAN : LaunchDone(c, ok)
    \/ \E ok \in BOOLEAN : NewPageDone(c, ok)
    \/ \E failAt \in 0 .. Len(PageSteps), warrantyData \in LookupPages :
          RunPage(c, failAt, warrantyData)
    \/ \E ok \in BOOLEAN : ClosePage(c, ok)

\* C1: checkSingleWarranty never propagates a failure: whatever the structured
\* request, the browser launch, newPage, the page steps and page.close do, a
\* call under way can go on, a completed call has returned a WarrantyRecord,
\* and when an exception reached its catch block that record has status Error
\* and the exception's message
C1_NeverPropagates ==
    \A c \in DirectIds :
        /\ lookups[c].pc \in {"idle", "api", "launch", "newPage", "steps", "close", "done"}
        /\ lookups[c].pc \notin {"idle", "done"} => ENABLED LookupStep(c)
        /\ lookups[c].pc = "done" =>
              /\ lookups[c].result.warrantyStatus \in Statuses
              /\ lookups[c].source \in {"cache", "api", "scrape", "catch"}
              /\ lookups[c].source = "catch" <=> lookups[c].error # ""
        /\ (lookups[c].pc = "done" /\ lookups[c].error # "") =>
              /\ lookups[c].result.warrantyStatus = "Error"
              /\ lookups[c].result.errorMessage = lookups[c].error

\* one call ended on a browser launch failure, another on a navigation timeout,
\* and both returned the Error record with the exception's message
C1_Witness ==
    \E c, d \in DirectIds :
        /\ lookups[c].pc = "done" /\ lookups[c].error = LaunchMessage
        /\ lookups[c].result = Caught(lookups[c].serialNumber, LaunchMessage)
        /\ lookups[d].pc = "done" /\ lookups[d].error = StepMessage("goto")
        /\ lookups[d].result.warrantyStatus = "Error"
        /\ lookups[d].result.errorMessage = StepMessage("goto")

\* C2: checkWarrantyBatch([S1..Sn]) returns exactly n records, the i-th with
\* serialNumber Si, in whatever order the lookups of a chunk complete
C2_OrderPreserved ==
    /\ \A i \in 1 .. Len(batch.results) :
          /\ i <= Len(batch.serialNumbers)
          /\ batch.results[i].serialNumber = batch.serialNumbers[i]
    /\ batch.pc = "done" =>
          /\ Len(batch.returned) = Len(batch.serialNumbers)
          /\ \A i \in 1 .. Len(batch.serialNumbers) :
                batch.returned[i].serialNumber = batch.serialNumbers[i]

\* a batch of two different serials returned, its second lookup having
\* completed before its first
C2_Witness ==
    /\ batch.pc = "done"
    /\ Len(batch.serialNumbers) = 2
    /\ batch.serialNumbers[1] # batch.serialNumbers[2]
    /\ batch.finished = <<2, 1>>
    /\ batch.returned[1].serialNumber = batch.serialNumbers[1]
    /\ batch.returned[2].serialNumber = batch.serialNumbers[2]

\* C3: containment: when the scrape of a serial of a batch of N throws, the
\* batch still returns N records, the record at that serial's position has
\* status Error, and every other position holds the record its own lookup
\* resolved from the cache, the structured source or its scrape
C3_Containment ==
    /\ \A i \in 1 .. Len(batch.results) :
          /\ batch.results[i] = lookups[i].result
          /\ lookups[i].error # "" => batch.results[i].warrantyStatus = "Error"
          /\ lookups[i].error = "" => lookups[i].source \in {"cache", "api", "scrape"}
    /\ batch.pc = "done" =>
          /\ Len(batch.returned) = Len(batch.serialNumbers)
          /\ batch.returned = batch.results

\* a batch of three returned: the scrape of its second serial threw, the
\* other two were resolved
C3_Witness ==
    /\ batch.pc = "done"
    /\ Len(batch.returned) = 3
    /\ lookups[2].error = StepMessage("goto")
    /\ batch.returned[2].warrantyStatus = "Error"
    /\ lookups[1].error = "" /\ batch.returned[1].warrantyStatus = "Expiring Soon"
    /\ lookups[3].error = "" /\ batch.returned[3].warrantyStatus = "Active"

\* the direct call d is made in this step, after the direct call c for the same
\* serial has returned and within the cache's time to live of that return
SecondCall(c, d) ==
    /\ c # d
    /\ lookups[c].pc = "done"
    /\ lookups[d].pc = "idle"
    /\ lookups'[d].pc # "idle"
    /\ lookups'[d].serialNumber = lookups[c].serialNumber
    /\ now < lookups[c].doneAt + Ms(CACHE_TTL * 1000)

\* the call d returned the record of c at once, and no source was invoked
ServedFromCache(c, d) ==
    /\ lookups'[d].pc = "done"
    /\ lookups'[d].result = lookups[c].result
    /\ apiCalls' = apiCalls
    /\ scrapeCalls' = scrapeCalls

\* C4 as claimed: two consecutive calls checkSingleWarranty(S) within the cache
\* TTL return identical records and the second invokes neither source client,
\* whatever record the first call returned
C4_IdempotentWhateverFirst ==
    [][\A c, d \in DirectIds : SecondCall(c, d) => ServedFromCache(c, d)]_vars

\* C4 as amended: the same, when the first call returned a record of the
\* structured client or of a scrape that did not throw (a record it cached)
C4_IdempotentWhenCached ==
    [][\A c, d \in DirectIds :
          (SecondCall(c, d) /\ lookups[c].source # "catch") => ServedFromCache(c, d)]_vars

\* a second call, made later than the first returned its scrape record, was
\* served that record from the cache: one structured request, one scrape
C4_Witness ==
    \E c, d \in DirectIds :
        /\ c # d
        /\ lookups[c].pc = "done" /\ lookups[c].source = "scrape"
        /\ lookups[d].pc = "done" /\ lookups[d].source = "cache"
        /\ lookups[d].serialNumber = lookups[c].serialNumber
        /\ lookups[d].result = lookups[c].result
        /\ lookups[d].doneAt > lookups[c].doneAt
        /\ apiCalls[lookups[c].serialNumber] = 1
        /\ scrapeCalls[lookups[c].serialNumber] = 1

\* the lookup has entered scrapeWarrantyInfo
Scraping(c) ==
    \/ lookups[c].pc \in {"launch", "newPage", "steps", "close"}
    \/ lookups[c].pc = "done" /\ lookups[c].source \in {"scrape", "catch"}

\* C5: fallback: a call whose structured attempt returned null invokes the
\* scrape client exactly once, after that attempt completed; a call whose
\* structured attempt returned a record, or is still under way, or that was
\* served from the cache, does not invoke it
C5_Fallback ==
    /\ \A c \in DirectIds :
          /\ lookups[c].apiResult # NoRec =>
                lookups[c].pc = "done" /\ lookups[c].source = "api" /\ ~Scraping(c)
          /\ lookups[c].pc \in {"idle", "api"} => ~Scraping(c)
          /\ (lookups[c].pc = "done" /\ lookups[c].source = "cache") => ~Scraping(c)
    /\ \A s \in Serials :
          scrapeCalls[s] = Cardinality({c \in DirectIds :
                                           lookups[c].serialNumber = s /\ Scraping(c)})

\* two calls for one serial both saw no cache entry: one got a record from the
\* structured client and never scraped, one got null and scraped once
C5_Witness ==
    \E c, d \in DirectIds :
        /\ lookups[c].serialNumber = lookups[d].serialNumber
        /\ lookups[c].pc = "done" /\ lookups[c].source = "api"
        /\ lookups[d].pc = "done" /\ lookups[d].source = "scrape"
        /\ scrapeCalls[lookups[c].serialNumber] = 1
        /\ apiCalls[lookups[c].serialNumber] = 2

\* C6: the record checkSingleWarranty(S) returns has serialNumber S on every
\* path: cache hit, structured record, scrape record, catch block
C6_SerialNumber ==
    \A c \in DirectIds :
        lookups[c].pc = "done" => lookups[c].result.serialNumber = lookups[c].serialNumber

\* a call served from the cache after a call resolved by the structured
\* client, for the second serial
C6_Witness ==
    \E c, d \in DirectIds :
        /\ lookups[c].pc = "done" /\ lookups[c].source = "api"
        /\ lookups[d].pc = "done" /\ lookups[d].source = "cache"
        /\ lookups[c].serialNumber = "PF2FGHIJ"
        /\ lookups[d].result.serialNumber = "PF2FGHIJ"


\* the lookups the batch has issued so far
IssuedIds == {c \in BatchIds : lookups[c].pc # "idle"}

\* C8: the chunks of a batch are processed one after the other and paced: when
\* the lookups of the next chunk are issued, every lookup issued before has
\* completed at least 2000ms earlier and the previous chunk was issued at
\* least 2000ms earlier; so the lookups in flight are those of one chunk, at
\* most the chunk size
C8_Pacing ==
    /\ [][(batch.k >= 1 /\ batch'.k > batch.k) =>
             /\ \A c \in IssuedIds :
                   lookups[c].pc = "done" /\ now >= lookups[c].doneAt + Ms(2000)
             /\ now >= batch.issuedAt + Ms(2000)]_vars
    /\ [](Cardinality(InFlight(BatchIds)) <= ChunkSize)
    /\ [](InFlight(BatchIds) \subseteq CurrentIds)

\* the second chunk of a batch is in flight, issued 2000ms after the last
\* lookup of the first chunk completed
C8_Witness ==
    /\ batch.pc = "chunk"
    /\ batch.k = 2
    /\ InFlight(BatchIds) # {}
    /\ lookups[2].doneAt = 1
    /\ batch.issuedAt = 1 + Ms(2000)

\* C10 as claimed: at most one browser session is launched and not yet closed,
\* also when the scrape calls of a chunk reach initBrowser together, and the
\* open pages are all on that one session
C10_SingleSession ==
    /\ Cardinality(LiveSessions) <= 1
    /\ \A p, q \in pages : p.session = q.session


\* C11 as claimed: this.browser is assigned a newly launched session only when
\* every session launched before has been closed
C11_NeverOverwritten ==
    [][(browser' # browser /\ browser' # NoBrowser) =>
          \A b \in 1 .. Len(sessions) : sessions[b] = "closed"]_vars


\* the direct call d for serial s is made in this step, the cache holding for s
\* an entry written CACHE_TTL seconds ago or earlier (t is the instant of the
\* write plus the time to live)
CalledOnOldEntry(d, s) ==
    /\ lookups[d].pc = "idle"
    /\ lookups'[d].pc # "idle"
    /\ lookups'[d].serialNumber = s
    /\ cache[s].has
    /\ now >= cache[s].t

\* the call d missed the cache and issued its structured request
TreatedAsMiss(d, s) ==
    /\ lookups'[d].pc = "api"
    /\ apiCalls'[s] = apiCalls[s] + 1

\* C12 as claimed: a record written to the cache at time t is not returned by
\* a lookup at any time now >= t + 3600s: checkSingleWarranty then misses the
\* cache and queries the sources again
C12_Expiry ==
    [][\A d \in DirectIds, s \in Serials :
          CalledOnOldEntry(d, s) => TreatedAsMiss(d, s)]_vars


\* the structured request failed (network failure, timeout, non-2xx status: axios
\* throws) or answered with a payload whose status is not success
FailedResponses == {r \in LookupResponses : r.kind = "throw" \/ r.status # "success"}

\* C13: a failure of the structured request is never surfaced as an error: on
\* a network failure, a timeout, a non-2xx status or a payload whose status is
\* not success, tryApiMethod yields null and checkSingleWarranty goes on into
\* the scrape client: it does not return, records no error and caches nothing
C13_Unavailable ==
    /\ [][\A c \in DirectIds, response \in FailedResponses :
             ApiDone(c, response) =>
                /\ lookups'[c].pc \in {"launch", "newPage"}
                /\ lookups'[c].apiResult = NoRec
                /\ lookups'[c].error = ""
                /\ lookups'[c].result = NoRec
                /\ scrapeCalls'[lookups[c].serialNumber]
                      = scrapeCalls[lookups[c].serialNumber] + 1
                /\ cache' = cache]_vars
    /\ [](\A s \in Serials, response \in FailedResponses :
             tryApiMethod(s, response, now) = NoRec)

\* a call whose only structured request yielded null was resolved by its
\* scrape, with no error, and no other call was made
C13_Witness ==
    \E c, d \in DirectIds :
        /\ lookups[d].pc = "idle"
        /\ lookups[c].pc = "done"
        /\ lookups[c].apiResult = NoRec
        /\ lookups[c].source = "scrape"
        /\ lookups[c].error = ""
        /\ lookups[c].result.warrantyStatus = "Expiring Soon"
        /\ apiCalls[lookups[c].serialNumber] = 1
        /\ scrapeCalls[lookups[c].serialNumber] = 1


\* a payload of the shape {status: 'success', data: {product, warranty: {...,
\* endDate, ...}}} with an end date that is a date
WellFormed(response) ==
    /\ response.kind = "payload"
    /\ response.status = "success"
    /\ response.hasData
    /\ response.hasWarranty
    /\ response.endDate.k = "date"

\* C14 as claimed: the structured client yields a record only for a successful,
\* well-formed payload: on any other answer (success with data but no warranty
\* object, a warranty object without an end date) checkSingleWarranty goes on
\* into the scrape client, and returns and caches no record made from that answer
C14_OnlyWellFormed ==
    [][\A c \in DirectIds, response \in LookupResponses :
          (ApiDone(c, response) /\ ~WellFormed(response)) =>
             /\ lookups'[c].pc \in {"launch", "newPage"}
             /\ lookups'[c].apiResult = NoRec
             /\ cache' = cache]_vars


\* C15 as claimed: scrapeWarrantyInfo never raises to its caller: whatever
\* fails inside it, it returns a record, so no call of checkSingleWarranty
\* ends in its catch block
C15_ScrapeNeverRaises ==
    \A c \in DirectIds : lookups[c].pc = "done" => lookups[c].source # "catch"

\* the call c, having an exception with this message raised out of
\* scrapeWarrantyInfo in this step, returns the Error record with that message
\* from its catch block, and nothing is written to the cache
RaisedAndCaught(c, message) ==
    /\ message # ""
    /\ lookups'[c].pc = "done"
    /\ lookups'[c].source = "catch"
    /\ lookups'[c].result.serialNumber = lookups[c].serialNumber
    /\ lookups'[c].result.warrantyStatus = "Error"
    /\ lookups'[c].result.errorMessage = message
    /\ lookups'[c].result.warrantyEndDate = UndefDate
    /\ lookups'[c].result.daysRemaining = UndefNum
    /\ cache' = cache

\* C15 as amended: every failure inside scrapeWarrantyInfo (the browser does
\* not launch, newPage fails, a page step fails or times out, page.close
\* fails) is raised to checkSingleWarranty, whose catch block returns the
\* record with status Error and the failure's message; a failing page step
\* first has the page closed, and a scrape in which nothing fails returns its
\* own record
C15_ScrapeFailureCaught ==
    [][\A c \in DirectIds :
          /\ LaunchDone(c, FALSE) => RaisedAndCaught(c, LaunchMessage)
          /\ NewPageDone(c, FALSE) => RaisedAndCaught(c, NewPageMessage)
          /\ \A failAt \in 1 .. Len(PageSteps), warrantyData \in LookupPages :
                RunPage(c, failAt, warrantyData) =>
                   /\ lookups'[c].pc = "close"
                   /\ lookups'[c].err = StepMessage(PageSteps[failAt])
                   /\ lookups'[c].err # ""
          /\ (ClosePage(c, TRUE) /\ lookups[c].err # "")
                => RaisedAndCaught(c, lookups[c].err)
          /\ ClosePage(c, FALSE) => RaisedAndCaught(c, ClosePageMessage)
          /\ (ClosePage(c, TRUE) /\ lookups[c].err = "") =>
                /\ lookups'[c].pc = "done"
                /\ lookups'[c].source = "scrape"
                /\ lookups'[c].result = lookups[c].ret]_vars

\* one call ended on the element wait timing out, another on the submit button
\* missing: each returned the Error record with that message, nothing cached
C15_Witness ==
    \E c, d \in DirectIds :
        /\ lookups[c].pc = "done" /\ lookups[c].source = "catch"
        /\ lookups[c].result.warrantyStatus = "Error"
        /\ lookups[c].result.errorMessage = StepMessage("waitForSelector")
        /\ lookups[d].pc = "done" /\ lookups[d].source = "catch"
        /\ lookups[d].result.warrantyStatus = "Error"
        /\ lookups[d].result.errorMessage = StepMessage("submitButton")
        /\ \A s \in Serials : ~cache[s].has


\* the pages the lookup c has open
PagesOf(c) == {p \in pages : p.owner = c}

\* C16: page lifecycle: a scrape call has its page open while it runs its page
\* steps; whichever step fails (user agent, navigation, input wait, input
\* lookup, typing, submit lookup, navigation wait, settle delay, extraction) or
\* none, the call goes on to page.close() and completes only through it, and
\* once page.close() has succeeded the page is gone; when every call has
\* completed and no page.close() has itself failed, no page is open
C16_PageLifecycle ==
    /\ [](\A c \in DirectIds :
             /\ lookups[c].pc \in {"steps", "close"} => Cardinality(PagesOf(c)) = 1
             /\ lookups[c].pc \in {"idle", "api", "launch", "newPage"} => PagesOf(c) = {}
             /\ (lookups[c].pc = "done" /\ lookups[c].error # ClosePageMessage)
                   => PagesOf(c) = {})
    /\ [][\A c \in DirectIds :
             /\ lookups[c].pc = "steps" => lookups'[c].pc \in {"steps", "close"}
             /\ (PagesOf(c) # {} /\ lookups'[c].pc = "done") => lookups[c].pc \in {"close", "done"}
             /\ ClosePage(c, TRUE) => {p \in pages' : p.owner = c} = {}]_vars
    /\ []((\A c \in DirectIds : /\ lookups[c].pc \in {"idle", "done"}
                                /\ lookups[c].error # ClosePageMessage)
             => pages = {})

\* two scrape calls have completed on one session, one after its extraction
\* failed and one with its record, and no page is open
C16_Witness ==
    \E c, d \in DirectIds :
        /\ lookups[c].pc = "done" /\ lookups[c].error = StepMessage("evaluate")
        /\ lookups[d].pc = "done" /\ lookups[d].source = "scrape"
        /\ Len(sessions) = 1
        /\ pages = {}


\* C17 as claimed: every failure while scraping or parsing a serial gives that
\* serial a record with status Error and a non-empty errorMessage: an exception
\* of a scrape (timeout, missing element, network failure), and an extracted
\* end-date token that does not parse to a date, which never gives Active,
\* Expiring Soon or Expired
C17_FailureIsError ==
    \A c \in DirectIds :
        lookups[c].pc = "done" =>
            /\ lookups[c].error # "" =>
                  /\ lookups[c].result.warrantyStatus = "Error"
                  /\ lookups[c].result.errorMessage \notin {"", Undefined}
            /\ (lookups[c].source = "scrape" /\ lookups[c].result.warrantyEndDate.k = "bad") =>
                  /\ lookups[c].result.warrantyStatus = "Error"
                  /\ lookups[c].result.errorMessage \notin {"", Undefined}


-----------------------------------------------------------------------------
(* Specification of the two status derivations side by side *)

\* an end date given to both paths, with no error indicator: to the scrape path
\* as the token extractDate returned, to the structured path as
\* data.data.warranty.endDate of a successful payload
InitPaths ==
    /\ InitService
    /\ \E today \in {0, DayMs \div 2} :
          fin \in {[serialNumber |-> "PF1ABCDE", today |-> today, endDate |-> endDate] :
                      endDate \in ClassifyDates(today)}
    /\ fout = <<>>

RunPaths ==
    /\ fout = <<>>
    /\ fout' = <<[scrape |-> ScrapeRecord(fin.serialNumber,
                                          WarrantyData(fin.endDate, ""), fin.today),
                  api |-> parseApiResponse(fin.serialNumber,
                                           ApiPayload("success", TRUE, TRUE, fin.endDate),
                                           fin.today)]>>
    /\ UNCHANGED <<engineVars, fin>>

SpecPaths == InitPaths /\ [][RunPaths]_vars

\* C18 as claimed: for every end date (a date before, at or after today, an
\* empty end date, an end date that does not parse) and no error indicator,
\* the structured path and the scrape path compute the same daysRemaining and
\* the same warrantyStatus
C18_SameClassification ==
    fout # <<>> =>
        /\ fout[1].scrape.daysRemaining = fout[1].api.daysRemaining
        /\ fout[1].scrape.warrantyStatus = fout[1].api.warrantyStatus


-----------------------------------------------------------------------------
(* The warranty routes: strings of a request are sequences of characters *)

UpperLetters ==
    <<"A", "B", "C", "D", "E", "F", "G", "H", "I", "J", "K", "L", "M",
      "N", "O", "P", "Q", "R", "S", "T", "U", "V", "W", "X", "Y", "Z">>

LowerLetters ==
    <<"a", "b", "c", "d", "e", "f", "g", "h", "i", "j", "k", "l", "m",
      "n", "o", "p", "q", "r", "s", "t", "u", "v", "w", "x", "y", "z">>

DigitChars == {"0", "1", "2", "3", "4", "5", "6", "7", "8", "9"}

\* the white space and line terminators String.prototype.trim strips
WhiteSpace == {" ", "\t", "\n", "\r"}

Range(seq) == {seq[i] : i \in 1 .. Len(seq)}

\* String.prototype.toUpperCase
toUpperCase(str) ==
    [i \in 1 .. Len(str) |->
        IF str[i] \in Range(LowerLetters)
        THEN UpperLetters[CHOOSE j \in 1 .. Len(LowerLetters) : LowerLetters[j] = str[i]]
        ELSE str[i]]

RECURSIVE trimStart(_)
trimStart(str) ==
    IF str # <<>> /\ Head(str) \in WhiteSpace THEN trimStart(Tail(str)) ELSE str

RECURSIVE trimEnd(_)
trimEnd(str) ==
    IF str # <<>> /\ str[Len(str)] \in WhiteSpace
    THEN trimEnd(SubSeq(str, 1, Len(str) - 1))
    ELSE str

\* String.prototype.trim
trim(str) == trimEnd(trimStart(str))

\* /^[A-Z0-9]{6,15}$/i.test(str)
SerialPattern(str) ==
    /\ Len(str) >= 6
    /\ Len(str) <= 15
    /\ \A i \in 1 .. Len(str) :
          str[i] \in Range(UpperLetters) \cup Range(LowerLetters) \cup DigitChars

\* POST /check: serialNumbers.length > 50
MaxSerialNumbers == 50

\* the filter of POST /check on one element of the body (a string)
ValidFormat(serial) == Len(trim(serial)) > 0 /\ SerialPattern(trim(serial))

\* an element of the array of a request body: a string, or a value of another
\* type (a number)
Str(chars) == [k |-> "string", s |-> chars]

NotString == [k |-> "number", s |-> <<>>]

\* req.body.serialNumbers: absent, a string (truthy and not an array), an array
Missing == [k |-> "undefined", v |-> <<>>]

NotAnArray == [k |-> "string", v |-> <<>>]

ArrayOf(elements) == [k |-> "array", v |-> elements]

\* typeof serial === 'string' && serial.trim().length > 0 && the pattern
ValidElement(serial) == serial.k = "string" /\ ValidFormat(serial.s)

\* serialNumbers.filter(...): the strings kept, in order
validSerialNumbersOf(serialNumbers) ==
    LET kept == SelectSeq(serialNumbers, ValidElement)
    IN  [i \in 1 .. Len(kept) |-> kept[i].s]

PostGuardCountsValid(body) ==
    IF body.k # "array" \/ body.v = <<>> THEN "Invalid request"
    ELSE IF validSerialNumbersOf(body.v) = <<>> THEN "No valid serial numbers"
    ELSE IF Len(validSerialNumbersOf(body.v)) > MaxSerialNumbers
         THEN "Too many serial numbers"
    ELSE ""

\* the guards of POST /check: the error of the 400 response, or "" when the
\* request passes them
PostGuard(body) ==
    IF body.k # "array" \/ body.v = <<>> THEN "Invalid request"
    ELSE IF Len(body.v) > MaxSerialNumbers THEN "Too many serial numbers"
    ELSE IF validSerialNumbersOf(body.v) = <<>> THEN "No valid serial numbers"
    ELSE ""

\* res.status(400).json({success: false, error, message})
BadRequest(error) ==
    [status |-> 400, success |-> FALSE, error |-> error, results |-> <<>>,
     totalProcessed |-> 0, errors |-> 0]

\* POST /check with body {serialNumbers} up to its first await: a request the
\* guards refuse is answered with 400 at once; for the others
\* checkWarrantyBatch is called with the elements the filter kept
PostCheck(body) ==
    /\ fin = <<>>
    /\ fin' = body
    /\ IF PostGuard(body) # ""
       THEN /\ fout' = <<BadRequest(PostGuard(body))>>
            /\ UNCHANGED engineVars
       ELSE /\ BatchStart(validSerialNumbersOf(body.v))
            /\ fout' = fout

ErrorCountWithNotFound(results) ==
    Cardinality({i \in 1 .. Len(results) :
                    results[i].warrantyStatus \in {"Error", "Not Found"}})

\* results.filter(r => r.warrantyStatus === 'Error').length
ErrorCount(results) ==
    Cardinality({i \in 1 .. Len(results) : results[i].warrantyStatus = "Error"})

\* POST /check after checkWarrantyBatch has returned: res.json(response)
PostRespond ==
    /\ fin # <<>>
    /\ fout = <<>>
    /\ batch.pc = "done"
    /\ fout' = <<[status |-> 200, success |-> TRUE, error |-> "",
                  results |-> batch.returned,
                  totalProcessed |-> Len(validSerialNumbersOf(fin.v)),
                  errors |-> ErrorCount(batch.returned)]>>
    /\ UNCHANGED <<engineVars, fin>>

\* GET /check/:serialNumber: 400 unless the parameter matches the pattern, else
\* checkSingleWarranty(serialNumber)
GetCheck(c, serialNumber) ==
    /\ serialNumber # <<>>
    /\ SerialPattern(serialNumber)
    /\ CallSingle(c, serialNumber)

-----------------------------------------------------------------------------
(* Specification of the warranty routes *)

\* spellings a request can carry: a serial in upper case, in lower case, with
\* surrounding blanks, another serial, a serial too short, one with a dash
RequestSerials ==
    {<<"P", "F", "1", "A", "B", "C", "D", "E">>,
     <<"p", "f", "1", "a", "b", "c", "d", "e">>,
     <<" ", "P", "F", "1", "A", "B", "C", "D", "E", " ">>,
     <<"P", "C", "1", "2", "3", "4", "5", "6">>,
     <<"P", "F", "1">>,
     <<"P", "F", "1", "-", "A", "B", "C", "D">>}

\* the strings the routes can hand to the service
RouteKeys == {str \in RequestSerials : ValidFormat(str)}

InitRoute ==
    /\ now = 0
    /\ cache = [s \in RouteKeys |-> NoEntry]
    /\ browser = NoBrowser
    /\ sessions = <<>>
    /\ pages = {}
    /\ lookups = [c \in LookupIds |-> IdleLookup]
    /\ apiCalls = [s \in RouteKeys |-> 0]
    /\ scrapeCalls = [s \in RouteKeys |-> 0]
    /\ batch = IdleBatch
    /\ closer = [pc |-> "idle", target |-> NoBrowser]
    /\ fin = <<>>
    /\ fout = <<>>

RouteResponse == ApiPayload("success", TRUE, TRUE, DateTok(45 * DayMs))

\* the elements of the arrays POST /check is sent: a serial, the serial with
\* surrounding blanks, a serial too short, a number
PostElements ==
    {Str(<<"P", "F", "1", "A", "B", "C", "D", "E">>),
     Str(<<" ", "P", "F", "1", "A", "B", "C", "D", "E", " ">>),
     Str(<<"P", "F", "1">>),
     NotString}

\* an array of n elements, those at the positions valid being a serial and the
\* others a serial too short
LongArray(n, valid) ==
    [i \in 1 .. n |->
        IF i \in valid THEN Str(<<"P", "F", "1", "A", "B", "C", "D", "E">>)
        ELSE Str(<<"P", "F", "1">>)]

\* the bodies POST /check is sent: no serialNumbers, one that is not an array,
\* the arrays of up to MaxBatch elements, and arrays at and over the limit:
\* 50 elements of which two are valid, 51 of which one is, 51 valid ones
PostBodies ==
    {Missing, NotAnArray}
    \cup {ArrayOf(elements) : elements \in SeqsUpTo(PostElements, MaxBatch)}
    \cup {ArrayOf(LongArray(MaxSerialNumbers, {1, MaxSerialNumbers})),
          ArrayOf(LongArray(MaxSerialNumbers + 1, {MaxSerialNumbers + 1})),
          ArrayOf(LongArray(MaxSerialNumbers + 1, 1 .. (MaxSerialNumbers + 1)))}

\* what the structured request of a lookup of the batch does: it answers with a
\* warranty or without one, or it fails, and then the browser does not launch
BatchRouteResponses ==
    {RouteResponse, ApiPayload("success", TRUE, FALSE, UndefDate), ApiThrow}

\* one POST /check request with one of the bodies; time passes while its batch
\* waits for its pacing delay
PostStep(bodies) ==
    \/ \E body \in bodies : PostCheck(body)
    \/ PostRespond
    \/ \E c \in BatchIds, response \in BatchRouteResponses : ApiDone(c, response)
    \/ \E c \in BatchIds : LaunchDone(c, FALSE)
    \/ ChunkDone
    \/ DelayDone
    \/ batch.pc = "delay" /\ ~DelayElapsed /\ Tick(1)

NextPost == PostStep(PostBodies)

SpecPost == InitRoute /\ [][NextPost]_vars

\* the bodies of the route specification: those of up to a chunk of elements
RouteBodies == {body \in PostBodies : Len(body.v) <= ChunkSize}

\* one POST /check request and the GET requests; the structured request of a
\* GET answers with a warranty
NextRoute ==
    \/ PostStep(RouteBodies)
    \/ \E c \in DirectIds, serialNumber \in RequestSerials : GetCheck(c, serialNumber)
    \/ \E c \in DirectIds : ApiDone(c, RouteResponse)

SpecRoute == InitRoute /\ [][NextRoute]_vars

\* a trimmed, upper-case string matching [A-Z0-9]{6,15}
Normalized(str) ==
    /\ Len(str) >= 6
    /\ Len(str) <= 15
    /\ \A i \in 1 .. Len(str) : str[i] \in Range(UpperLetters) \cup DigitChars

\* C19 as claimed: every serial the routes hand to the engine, every key with
\* a cache entry and every serialNumber of a returned record is the trimmed,
\* upper-case form matching [A-Z0-9]{6,15}, and requests spelling one serial
\* with different case or surrounding blanks resolve to one cache entry
C19_Normalized ==
    /\ \A c \in LookupIds :
          lookups[c].pc # "idle" => Normalized(lookups[c].serialNumber)
    /\ \A c \in LookupIds :
          lookups[c].pc = "done" => Normalized(lookups[c].result.serialNumber)
    /\ \A key \in DOMAIN cache : cache[key].has => Normalized(key)
    /\ \A key, other \in DOMAIN cache :
          (cache[key].has /\ cache[other].has
             /\ toUpperCase(trim(key)) = toUpperCase(trim(other))) => key = other


-----------------------------------------------------------------------------
(* Specification of checkWarrantyBatch called with 50 and with 51 serials *)

\* a batch of n serials, two serials in turn
BatchOfLength(n) == [i \in 1 .. n |-> IF i % 2 = 1 THEN "PF1ABCDE" ELSE "PF2FGHIJ"]

LongBatches == {BatchOfLength(MaxSerialNumbers), BatchOfLength(MaxSerialNumbers + 1)}

\* the service after its constructor ran, with a lookup for every position of
\* the longest batch
InitLongBatch ==
    /\ now = 0
    /\ cache = [s \in Serials |-> NoEntry]
    /\ browser = NoBrowser
    /\ sessions = <<>>
    /\ pages = {}
    /\ lookups = [c \in 1 .. (MaxSerialNumbers + 1) |-> IdleLookup]
    /\ apiCalls = [s \in Serials |-> 0]
    /\ scrapeCalls = [s \in Serials |-> 0]
    /\ batch = IdleBatch
    /\ closer = [pc |-> "idle", target |-> NoBrowser]
    /\ fin = <<>>
    /\ fout = <<>>

\* the structured request answers with a warranty; time passes while the batch
\* waits for its pacing delay
NextLongBatch ==
    \/ \E serialNumbers \in LongBatches : BatchCall(serialNumbers)
    \/ \E c \in DOMAIN lookups : ApiDone(c, RouteResponse)
    \/ ChunkDone
    \/ DelayDone
    \/ batch.pc = "delay" /\ ~DelayElapsed /\ Tick(1)

SpecLongBatch == InitLongBatch /\ [][NextLongBatch]_vars

\* C20 as claimed: checkWarrantyBatch treats a batch of more than 50 serials as
\* a caller error: it issues no lookup and no structured request for it and
\* collects no result
C20_OverLengthRejected ==
    Len(batch.serialNumbers) > MaxSerialNumbers =>
        /\ \A c \in DOMAIN lookups : lookups[c].pc = "idle"
        /\ \A s \in Serials : apiCalls[s] = 0
        /\ batch.results = <<>>
        /\ batch.returned = <<>>


-----------------------------------------------------------------------------
(* Specification of checkSingleWarranty called with any string *)

\* the service after its constructor ran; the strings it can be called with
\* are those of RequestSerials, well formed or not
InitCore ==
    /\ now = 0
    /\ cache = [s \in RequestSerials |-> NoEntry]
    /\ browser = NoBrowser
    /\ sessions = <<>>
    /\ pages = {}
    /\ lookups = [c \in LookupIds |-> IdleLookup]
    /\ apiCalls = [s \in RequestSerials |-> 0]
    /\ scrapeCalls = [s \in RequestSerials |-> 0]
    /\ batch = IdleBatch
    /\ closer = [pc |-> "idle", target |-> NoBrowser]
    /\ fin = <<>>
    /\ fout = <<>>

\* the sources do what they do in the batch specification
NextCore ==
    \/ \E c \in DirectIds, serialNumber \in RequestSerials : CallSingle(c, serialNumber)
    \/ \E c \in DirectIds, response \in BatchResponses : ApiDone(c, response)
    \/ \E c \in DirectIds : LaunchDone(c, TRUE)
    \/ \E c \in DirectIds : NewPageDone(c, TRUE)
    \/ \E c \in DirectIds, failAt \in BatchFailures, warrantyData \in BatchPages :
          RunPage(c, failAt, warrantyData)
    \/ \E c \in DirectIds : ClosePage(c, TRUE)

SpecCore == InitCore /\ [][NextCore]_vars

\* C21 as claimed: checkSingleWarranty called with a serial that fails the
\* format validation [A-Z0-9]{6,15} returns at once a record with status Error
\* or Not Found, and issues no structured request and no scrape for it
C21_InvalidImmediate ==
    \A c \in DirectIds :
        (lookups[c].pc # "idle" /\ ~SerialPattern(lookups[c].serialNumber)) =>
            /\ lookups[c].pc = "done"
            /\ lookups[c].result.warrantyStatus \in {"Error", "Not Found"}
            /\ apiCalls[lookups[c].serialNumber] = 0
            /\ scrapeCalls[lookups[c].serialNumber] = 0


-----------------------------------------------------------------------------
(* cleanup and closeBrowser *)

\* cleanup() up to its first await: closeBrowser() finds this.browser set and
\* asks that session to close, or finds it null and returns
CleanupCall ==
    /\ closer.pc = "idle"
    /\ closer' = IF browser # NoBrowser
                 THEN [pc |-> "closing", target |-> browser]
                 ELSE [pc |-> "flush", target |-> NoBrowser]
    /\ UNCHANGED <<now, cache, browser, sessions, pages, lookups, apiCalls, scrapeCalls,
                   batch, fin, fout>>

\* this.browser.close() ends: the session and its pages are closed and
\* this.browser = null, or its failure is thrown out of cleanup()
BrowserCloseDone(ok) ==
    /\ closer.pc = "closing"
    /\ IF ok
       THEN /\ sessions' = [sessions EXCEPT ![closer.target] = "closed"]
            /\ pages' = {p \in pages : p.session # closer.target}
            /\ browser' = NoBrowser
            /\ closer' = [closer EXCEPT !.pc = "flush"]
       ELSE /\ closer' = [closer EXCEPT !.pc = "failed"]
            /\ UNCHANGED <<sessions, pages, browser>>
    /\ UNCHANGED <<now, cache, lookups, apiCalls, scrapeCalls, batch, fin, fout>>

\* this.cache.flushAll(), and cleanup() returns
FlushAll ==
    /\ closer.pc = "flush"
    /\ cache' = [s \in DOMAIN cache |-> NoEntry]
    /\ closer' = [closer EXCEPT !.pc = "done"]
    /\ UNCHANGED <<now, browser, sessions, pages, lookups, apiCalls, scrapeCalls, batch,
                   fin, fout>>

-----------------------------------------------------------------------------
(* Specification of the service shutting down *)

\* no lookup and no batch is under way
Quiet == InFlight(DOMAIN lookups) = {} /\ batch.pc \in {"idle", "done"}

\* the lookups of the shutdown specification: those of a batch of one chunk
\* and one direct call
ShutdownIds == (1 .. ChunkSize) \cup {MaxBatch + 1}

\* a batch of one chunk and a direct call run, the sources doing what they do
\* in the batch specification; the shutdown signal arrives when nothing is
\* under way, and no request is made after it
NextShutdown ==
    \/ \E serialNumbers \in SeqsUpTo(Serials, ChunkSize) :
          closer.pc = "idle" /\ BatchCall(serialNumbers)
    \/ \E serialNumber \in Serials :
          closer.pc = "idle" /\ CallSingle(MaxBatch + 1, serialNumber)
    \/ ChunkDone
    \/ DelayDone
    \/ \E c \in ShutdownIds, response \in BatchResponses : ApiDone(c, response)
    \/ \E c \in ShutdownIds : LaunchDone(c, TRUE)
    \/ \E c \in ShutdownIds : NewPageDone(c, TRUE)
    \/ \E c \in ShutdownIds, failAt \in BatchFailures, warrantyData \in BatchPages :
          RunPage(c, failAt, warrantyData)
    \/ \E c \in ShutdownIds : ClosePage(c, TRUE)
    \/ batch.pc = "delay" /\ ~DelayElapsed /\ Tick(1)
    \/ Quiet /\ CleanupCall
    \/ \E ok \in BOOLEAN : BrowserCloseDone(ok)
    \/ FlushAll

SpecShutdown == InitEngine /\ [][NextShutdown]_vars

\* C22 as claimed: after cleanup() has completed, no browser session the
\* service launched is still live and the cache has no entry, whatever
\* lookups and batches ran before cleanup was called
C22_Teardown ==
    closer.pc = "done" =>
        /\ LiveSessions = {}
        /\ \A s \in DOMAIN cache : ~cache[s].has


-----------------------------------------------------------------------------
(* Specification of a batch whose requests and scrape steps all terminate *)

\* the structured request and the page do what they do in the batch
\* specification, and the browser launch succeeds or fails; time passes while
\* the batch waits for its pacing delay
NextBatchLive ==
    \/ \E serialNumbers \in SeqsUpTo(Serials, MaxBatch) : BatchCall(serialNumbers)
    \/ ChunkDone
    \/ DelayDone
    \/ \E c \in BatchIds, response \in BatchResponses : ApiDone(c, response)
    \/ \E c \in BatchIds, ok \in BOOLEAN : LaunchDone(c, ok)
    \/ \E c \in BatchIds : NewPageDone(c, TRUE)
    \/ \E c \in BatchIds, failAt \in BatchFailures, warrantyData \in BatchPages :
          RunPage(c, failAt, warrantyData)
    \/ \E c \in BatchIds : ClosePage(c, TRUE)
    \/ batch.pc = "delay" /\ ~DelayElapsed /\ Tick(1)

\* every structured request and every step of a scrape ends (by answering or
\* by its timeout), every promise that is settled has its continuation run,
\* and the timer of delay() fires
BatchFairness ==
    /\ WF_vars(ChunkDone)
    /\ WF_vars(DelayDone)
    /\ WF_vars(batch.pc = "delay" /\ ~DelayElapsed /\ Tick(1))
    /\ \A c \in BatchIds :
          /\ WF_vars(\E response \in BatchResponses : ApiDone(c, response))
          /\ WF_vars(\E ok \in BOOLEAN : LaunchDone(c, ok))
          /\ WF_vars(NewPageDone(c, TRUE))
          /\ WF_vars(\E failAt \in BatchFailures, warrantyData \in BatchPages :
                        RunPage(c, failAt, warrantyData))
          /\ WF_vars(ClosePage(c, TRUE))

SpecBatchLive == InitEngine /\ [][NextBatchLive]_vars /\ BatchFairness

\* C23: batch completion: every checkWarrantyBatch call eventually returns;
\* before it returns the caller has nothing of its result; it returns once,
\* after its last chunk, when every lookup of every chunk has completed, and
\* what it returns is one record per serial, all chunks' results in order
C23_BatchCompletes ==
    /\ (batch.pc # "idle") ~> (batch.pc = "done")
    /\ [](batch.pc # "done" => batch.returned = <<>>)
    /\ [](batch.pc = "done" =>
             /\ batch.k = Len(batch.chunks)
             /\ \A c \in 1 .. Len(batch.serialNumbers) : lookups[c].pc = "done"
             /\ batch.returned = batch.results
             /\ Len(batch.returned) = Len(batch.serialNumbers))
    /\ [][batch'.returned # batch.returned =>
             /\ batch.pc # "done"
             /\ batch'.pc = "done"
             /\ batch.k = Len(batch.chunks)]_vars

\* a batch of three serials, in two chunks, has returned its three records,
\* the third resolved by a scrape after the first chunk's delay
C23_Witness ==
    /\ batch.pc = "done"
    /\ Len(batch.chunks) = 2
    /\ Len(batch.returned) = 3
    /\ batch.delays = 2
    /\ lookups[3].source = "scrape"
    /\ lookups[3].doneAt >= Ms(ChunkDelayMs)


\* C24: cache integrity under concurrent calls, several for one serial
\* included: the entry stored under serial S is whole the record one lookup
\* for S returned from the structured client or from its scrape, with
\* serialNumber S; and an entry is written only by a lookup for S completing,
\* which replaces the entry by its own record (last write wins)
C24_CacheIntegrity ==
    /\ [](\A s \in Serials :
             cache[s].has =>
                /\ cache[s].v.serialNumber = s
                /\ \E c \in DirectIds :
                      /\ lookups[c].pc = "done"
                      /\ lookups[c].serialNumber = s
                      /\ lookups[c].source \in {"api", "scrape"}
                      /\ lookups[c].result = cache[s].v)
    /\ [][\A s \in Serials :
             (cache'[s] # cache[s] /\ cache'[s].has) =>
                \E c \in DirectIds :
                   /\ lookups[c].pc \notin {"idle", "done"}
                   /\ lookups'[c].pc = "done"
                   /\ lookups[c].serialNumber = s
                   /\ cache'[s].v = lookups'[c].result
                   /\ cache'[s].t = now + Ms(CACHE_TTL * 1000)]_vars

\* two calls for one serial ran at the same time: one got its record from the
\* structured client, the other, completing later, a different record from its
\* scrape, and the cache holds the later one
C24_Witness ==
    \E c, d \in DirectIds :
        /\ lookups[c].pc = "done" /\ lookups[c].source = "api"
        /\ lookups[d].pc = "done" /\ lookups[d].source = "scrape"
        /\ lookups[c].serialNumber = lookups[d].serialNumber
        /\ lookups[c].result # lookups[d].result
        /\ lookups[d].doneAt > lookups[c].doneAt
        /\ lookups[d].doneAt < lookups[c].doneAt + Ms(CACHE_TTL * 1000)
        /\ cache[lookups[d].serialNumber].v = lookups[d].result


\* the direct call d for serial s is made in this step, the cache holding an
\* entry for s that has not expired
CalledOnLiveEntry(d, s) ==
    /\ lookups[d].pc = "idle"
    /\ lookups'[d].pc # "idle"
    /\ lookups'[d].serialNumber = s
    /\ CacheLive(s)

\* C25: a cache hit has no side effect: checkSingleWarranty(S) finding a cache
\* entry for S that has not expired returns that entry's record at once and
\* unchanged, issues no structured request and no scrape, launches no browser,
\* opens no page, and leaves the cache as it was
C25_HitNoSideEffect ==
    [][\A d \in DirectIds, s \in Serials :
          CalledOnLiveEntry(d, s) =>
             /\ lookups'[d].pc = "done"
             /\ lookups'[d].source = "cache"
             /\ lookups'[d].result = cache[s].v
             /\ lookups'[d].error = ""
             /\ apiCalls' = apiCalls
             /\ scrapeCalls' = scrapeCalls
             /\ browser' = browser
             /\ sessions' = sessions
             /\ pages' = pages
             /\ cache' = cache
             /\ \A c \in DirectIds \ {d} : lookups'[c] = lookups[c]]_vars

\* a call was served the Expired record the structured client had given an
\* earlier call: one structured request in all, no scrape, no browser
C25_Witness ==
    \E c, d \in DirectIds :
        /\ lookups[c].pc = "done" /\ lookups[c].source = "api"
        /\ lookups[c].result.warrantyStatus = "Expired"
        /\ lookups[d].pc = "done" /\ lookups[d].source = "cache"
        /\ lookups[d].serialNumber = lookups[c].serialNumber
        /\ lookups[d].result = lookups[c].result
        /\ apiCalls[lookups[c].serialNumber] = 1
        /\ scrapeCalls[lookups[c].serialNumber] = 0
        /\ sessions = <<>>
        /\ cache[lookups[c].serialNumber].v = lookups[c].result


\* the steps of a scrape in the order claimed: initBrowser, openPage, then on
\* the page the user agent, navigate, locateInputField (wait, then query),
\* enterSerial, submit (query the button), awaitNavigation (with the click),
\* the settle delay, extractFields
ScrapeOrder ==
    <<"initBrowser", "newPage", "setUserAgent", "goto", "waitForSelector",
      "serialInput", "type", "submitButton", "waitForNavigation", "waitForTimeout",
      "evaluate">>

IsPrefix(a, b) == Len(a) <= Len(b) /\ SubSeq(b, 1, Len(a)) = a

\* the steps entered before page.close()
BeforeClose(trace) ==
    IF trace # <<>> /\ trace[Len(trace)] = "close"
    THEN SubSeq(trace, 1, Len(trace) - 1)
    ELSE trace

\* the steps a scrape has entered are the first steps of the claimed order, so
\* each was entered after those before it had succeeded; the step that failed
\* is the last one entered before page.close(); the record is built only when
\* every step was entered, and the extraction comes after the navigation wait
\* and the settle delay
InOrder(c) ==
    LET trace == lookups[c].trace
        body == BeforeClose(trace)
    IN  /\ IsPrefix(body, ScrapeOrder)
        /\ lookups[c].pc \in {"idle", "api", "done"} => trace = <<>>
        /\ lookups[c].pc = "launch" => trace = <<"initBrowser">>
        /\ lookups[c].pc \in {"newPage", "steps"} => trace = <<"initBrowser", "newPage">>
        /\ lookups[c].pc = "close" =>
              /\ trace[Len(trace)] = "close"
              /\ Len(body) >= 3
              /\ (lookups[c].ret # NoRec) # (lookups[c].err # "")
              /\ lookups[c].ret # NoRec => body = ScrapeOrder
              /\ lookups[c].err # "" => StepMessage(body[Len(body)]) = lookups[c].err
        /\ \A i \in 1 .. Len(body) :
              body[i] = "evaluate" =>
                 \E j, k \in 1 .. (i - 1) :
                    /\ j < k
                    /\ body[j] = "waitForNavigation"
                    /\ body[k] = "waitForTimeout"

ReturnsFrom(c, source) ==
    /\ lookups[c].pc \notin {"idle", "done"}
    /\ lookups'[c].pc = "done"
    /\ lookups'[c].source = source

\* C27: the Error record of checkSingleWarranty's catch block is not written
\* to the cache, and the next lookup of that serial queries the sources again;
\* the record of the structured client and the record of a scrape that did
\* not throw, whatever its status, is in the cache under its serial, with the
\* full time to live, when checkSingleWarranty returns it, and a call made
\* within that time is served it
C27_CachedUnlessCaught ==
    [][\A c \in DirectIds :
          /\ ReturnsFrom(c, "catch") => cache' = cache
          /\ (ReturnsFrom(c, "api") \/ ReturnsFrom(c, "scrape")) =>
                cache'[lookups[c].serialNumber]
                   = [has |-> TRUE, v |-> lookups'[c].result,
                      t |-> now + Ms(CACHE_TTL * 1000)]
          /\ \A d \in DirectIds :
                SecondCall(c, d) =>
                   IF lookups[c].source = "catch"
                   THEN TreatedAsMiss(d, lookups[c].serialNumber)
                   ELSE /\ lookups'[d].pc = "done"
                        /\ lookups'[d].source = "cache"
                        /\ lookups'[d].result = lookups[c].result]_vars

\* a scrape that did not throw returned a record with status Error (the page
\* showed an error and no end date); it is in the cache, and a call made half
\* the time to live later was served it
C27_Witness ==
    \E c, d \in DirectIds :
        /\ lookups[c].pc = "done" /\ lookups[c].source = "scrape"
        /\ lookups[c].result.warrantyStatus = "Error"
        /\ cache[lookups[c].serialNumber].has
        /\ cache[lookups[c].serialNumber].v = lookups[c].result
        /\ lookups[d].pc = "done" /\ lookups[d].source = "cache"
        /\ lookups[d].serialNumber = lookups[c].serialNumber
        /\ lookups[d].result = lookups[c].result
        /\ lookups[d].doneAt = lookups[c].doneAt + CACHE_TTL \div 2


\* an element that is a format-valid serial: a string that, trimmed and in
\* upper case, matches [A-Z0-9]{6,15}
FormatValid(element) ==
    element.k = "string" /\ Normalized(toUpperCase(trim(element.s)))

\* the format-valid serials of an array, as submitted and in submitted order
FormatValidOf(elements) ==
    LET kept == SelectSeq(elements, FormatValid)
    IN  [i \in 1 .. Len(kept) |-> kept[i].s]

\* serialNumbers is missing, not an array, empty, longer than 50, or contains
\* no format-valid serial
Refused(body) ==
    \/ body.k # "array"
    \/ body.v = <<>>
    \/ Len(body.v) > 50
    \/ \A i \in 1 .. Len(body.v) : ~FormatValid(body.v[i])

\* C28: route guard of POST /check: a request whose serialNumbers is missing,
\* not an array, empty, longer than 50 before filtering, or without a
\* format-valid serial is answered 400 and checkWarrantyBatch is never invoked
\* for it; for every other request checkWarrantyBatch is invoked once, with the
\* format-valid serials only, in submitted order
C28_RouteGuard ==
    /\ [][\A body \in PostBodies :
             PostCheck(body) =>
                IF Refused(body)
                THEN /\ fout' # <<>>
                     /\ fout'[1].status = 400
                     /\ engineVars' = engineVars
                ELSE /\ fout' = <<>>
                     /\ batch.pc = "idle"
                     /\ batch'.pc # "idle"
                     /\ batch'.serialNumbers = FormatValidOf(body.v)]_vars
    /\ []((fin # <<>> /\ Refused(fin)) =>
             /\ fout # <<>>
             /\ fout[1].status = 400
             /\ batch = IdleBatch
             /\ \A c \in BatchIds : lookups[c].pc = "idle")
    /\ []((fin # <<>> /\ ~Refused(fin)) =>
             /\ batch.pc # "idle"
             /\ batch.serialNumbers = FormatValidOf(fin.v)
             /\ fout # <<>> => fout[1].status = 200)
    /\ [](fin = <<>> => batch = IdleBatch)
    /\ [][batch.pc # "idle" =>
             /\ batch'.pc # "idle"
             /\ batch'.serialNumbers = batch.serialNumbers]_vars

\* a request of 50 elements of which the first and the last are format-valid
\* was accepted: checkWarrantyBatch ran on those two and the response was sent
C28_Witness ==
    /\ fin = ArrayOf(LongArray(MaxSerialNumbers, {1, MaxSerialNumbers}))
    /\ batch.pc = "done"
    /\ batch.serialNumbers = <<fin.v[1].s, fin.v[MaxSerialNumbers].s>>
    /\ fout # <<>>
    /\ fout[1].status = 200


\* the success response of POST /check is consistent with the format-valid
\* serials of its request: results.length = totalProcessed = their number,
\* errors is the number of results with status Error (Not Found is not
\* counted), and the i-th result is that of the i-th format-valid serial
ConsistentResponse(request, response) ==
    LET valid == FormatValidOf(request.v)
        results == response.results
        WithStatus(status) ==
            {i \in 1 .. Len(results) : results[i].warrantyStatus = status}
    IN  /\ response.status = 200
        /\ Len(results) = response.totalProcessed
        /\ response.totalProcessed = Len(valid)
        /\ response.errors = Cardinality(WithStatus("Error"))
        /\ response.errors + Cardinality(WithStatus("Not Found")) <= Len(results)
        /\ \A i \in 1 .. Len(results) : results[i].serialNumber = valid[i]

\* C29 as claimed: every success response is consistent in this way and has
\* one result per serial of the request, in request order, never shorter or
\* longer than the submitted list
C29_OnePerSubmitted ==
    (fout # <<>> /\ fout[1].success) =>
        /\ ConsistentResponse(fin, fout[1])
        /\ Len(fout[1].results) = Len(fin.v)
        /\ \A i \in 1 .. Len(fin.v) :
              /\ fin.v[i].k = "string"
              /\ fout[1].results[i].serialNumber = fin.v[i].s

\* C29 as amended: every success response is consistent in this way and has
\* one result per format-valid serial of the request, in request order: the
\* elements that are not format-valid have no result, so the results are
\* never longer than the submitted list and are shorter by the number of such
\* elements
C29_OnePerValid ==
    (fout # <<>> /\ fout[1].success) =>
        /\ ConsistentResponse(fin, fout[1])
        /\ Len(fout[1].results) <= Len(fin.v)
        /\ Len(fout[1].results)
              = Len(fin.v) - Cardinality({i \in 1 .. Len(fin.v) : ~FormatValid(fin.v[i])})
        /\ \E pos \in [1 .. Len(fout[1].results) -> 1 .. Len(fin.v)] :
              /\ \A i, j \in DOMAIN pos : i < j => pos[i] < pos[j]
              /\ \A i \in DOMAIN pos :
                    /\ FormatValid(fin.v[pos[i]])
                    /\ fout[1].results[i].serialNumber = fin.v[pos[i]].s

\* a request of a serial, a serial too short and the serial with blanks got a
\* success response with two results, the first with status Error and the
\* second Not Found: totalProcessed 2, errors 1
C29_Witness ==
    /\ fout # <<>>
    /\ fout[1].success
    /\ Len(fin.v) = 3
    /\ ~FormatValid(fin.v[2])
    /\ Len(fout[1].results) = 2
    /\ fout[1].results[1].warrantyStatus = "Error"
    /\ fout[1].results[1].serialNumber = fin.v[1].s
    /\ fout[1].results[2].warrantyStatus = "Not Found"
    /\ fout[1].results[2].serialNumber = fin.v[3].s
    /\ fin.v[1].s # fin.v[3].s
    /\ fout[1].totalProcessed = 2
    /\ fout[1].errors = 1


\* the batch returns in this step
BatchReturns == batch.pc # "done" /\ batch'.pc = "done"

ChunkOf(c) == (c - 1) \div ChunkSize + 1

\* the lookups c and d of one serial are issued together in this step, the
\* cache holding no entry for it that has not expired
IssuedTogether(c, d) ==
    /\ c # d
    /\ lookups[c].pc = "idle" /\ lookups'[c].pc # "idle"
    /\ lookups[d].pc = "idle" /\ lookups'[d].pc # "idle"
    /\ lookups'[c].serialNumber = lookups'[d].serialNumber
    /\ ~CacheLive(lookups'[c].serialNumber)

\* C31: concurrent lookups of one uncached serial are not coalesced: two
\* lookups of a serial issued in one chunk both miss the cache and each issues
\* its own structured request, so a serial is queried once per lookup that was
\* not served from the cache; a lookup is served from the cache only when a
\* lookup of that serial in an earlier chunk has written its record before
C31_NotCoalesced ==
    /\ [][\A c, d \in BatchIds :
             IssuedTogether(c, d) =>
                /\ lookups'[c].pc = "api"
                /\ lookups'[d].pc = "api"
                /\ apiCalls'[lookups'[c].serialNumber]
                      >= apiCalls[lookups'[c].serialNumber] + 2]_vars
    /\ [](\A s \in Serials :
             apiCalls[s] = Cardinality({c \in BatchIds :
                                           /\ lookups[c].pc # "idle"
                                           /\ lookups[c].serialNumber = s
                                           /\ lookups[c].source # "cache"}))
    /\ [](\A c \in BatchIds :
             lookups[c].source = "cache" =>
                \E d \in BatchIds :
                   /\ ChunkOf(d) < ChunkOf(c)
                   /\ lookups[d].serialNumber = lookups[c].serialNumber
                   /\ lookups[d].pc = "done"
                   /\ lookups[d].source \in {"api", "scrape"}
                   /\ lookups[d].doneAt <= lookups[c].doneAt
                   /\ lookups[c].result \in
                         {lookups[e].result : e \in {e \in BatchIds :
                             /\ ChunkOf(e) < ChunkOf(c)
                             /\ lookups[e].serialNumber = lookups[c].serialNumber
                             /\ lookups[e].source \in {"api", "scrape"}}})

\* a batch of one serial three times: the two lookups of the first chunk each
\* queried the structured source and got a record, the lookup of the second
\* chunk was served from the cache
C31_Witness ==
    /\ Len(batch.serialNumbers) = 3
    /\ batch.serialNumbers[1] = batch.serialNumbers[2]
    /\ batch.serialNumbers[2] = batch.serialNumbers[3]
    /\ lookups[1].pc = "done" /\ lookups[1].source = "api"
    /\ lookups[2].pc = "done" /\ lookups[2].source = "scrape"
    /\ lookups[3].pc = "done" /\ lookups[3].source = "cache"
    /\ apiCalls[batch.serialNumbers[1]] = 2
    /\ scrapeCalls[batch.serialNumbers[1]] = 1


-----------------------------------------------------------------------------
(* The upload route: POST /parse on the content of an uploaded file *)

\* piece bound of the file contents
MaxPieces == 3

\* errors.slice(0, 10)
MaxErrors == 10

RECURSIVE SplitLoop(_, _, _, _)
SplitLoop(str, seps, i, acc) ==
    IF i > Len(str) THEN acc
    ELSE IF str[i] \in seps
    THEN SplitLoop(str, seps, i + 1,
                   IF i > 1 /\ str[i - 1] \in seps THEN acc ELSE Append(acc, <<>>))
    ELSE SplitLoop(str, seps, i + 1,
                   [acc EXCEPT ![Len(acc)] = Append(@, str[i])])

\* String.prototype.split on a pattern [seps]+
Split(str, seps) == SplitLoop(str, seps, 1, << <<>> >>)

\* values.forEach: const trimmed = value.trim(); if (trimmed) push(trimmed)
TrimmedValues(values) ==
    LET trimmed == [i \in 1 .. Len(values) |-> trim(values[i])]
    IN  SelectSeq(trimmed, LAMBDA value : value # <<>>)

\* lines and values of a file: split at lineSeps, each line at valueSeps
ValuesOf(content, lineSeps, valueSeps) ==
    LET lines == Split(content, lineSeps)
    IN  Flatten([i \in 1 .. Len(lines) |-> TrimmedValues(Split(lines[i], valueSeps))])

parseTXTFile(content) == ValuesOf(content, {"\n", "\r"}, {",", ";", "\t"})

\* csv({ headers: false, skipEmptyLines: true }) on content without quotes:
\* rows end at a newline, cells at a comma, the cells of a row in column order
parseCSVFile(content) == ValuesOf(content, {"\n"}, {","})

UniqueKeepsLast(values) ==
    LET kept == {i \in 1 .. Len(values) :
                    \A j \in (i + 1) .. Len(values) : values[j] # values[i]}
        nth(n) == CHOOSE i \in kept : Cardinality({j \in kept : j < i}) = n - 1
    IN  [n \in 1 .. Cardinality(kept) |-> values[nth(n)]]

\* [...new Set(values)]: a Set keeps the order of insertion
Unique(values) ==
    LET kept == {i \in 1 .. Len(values) :
                    \A j \in 1 .. (i - 1) : values[j] # values[i]}
        nth(n) == CHOOSE i \in kept : Cardinality({j \in kept : j < i}) = n - 1
    IN  [n \in 1 .. Cardinality(kept) |-> values[nth(n)]]

NoFile == [k |-> "none", csv |-> FALSE, content |-> <<>>]

\* an uploaded file: originalname ends with .csv or not, and its content
File(csv, content) == [k |-> "file", csv |-> csv, content |-> content]

\* serialNumbers.map(serial => serial.trim().toUpperCase())
Cleaned(file) ==
    LET serialNumbers == IF file.csv THEN parseCSVFile(file.content)
                                     ELSE parseTXTFile(file.content)
    IN  [i \in 1 .. Len(serialNumbers) |-> toUpperCase(trim(serialNumbers[i]))]

\* the response of router.post('/parse'); an error message is modelled by the
\* string it reports
ParseResponse(file) ==
    IF file.k = "none"
    THEN [status |-> 400, success |-> FALSE, error |-> "No file uploaded",
          serialNumbers |-> <<>>, totalFound |-> 0, errors |-> <<>>]
    ELSE LET cleaned == Cleaned(file)
             validSerialNumbers ==
                 SelectSeq(cleaned, LAMBDA serial : serial # <<>> /\ SerialPattern(serial))
             errors ==
                 SelectSeq(cleaned, LAMBDA serial : serial # <<>> /\ ~SerialPattern(serial))
             uniqueSerialNumbers == Unique(validSerialNumbers)
         IN  IF Len(uniqueSerialNumbers) = 0
             THEN [status |-> 400, success |-> FALSE,
                   error |-> "No valid serial numbers found",
                   serialNumbers |-> <<>>, totalFound |-> 0, errors |-> errors]
             ELSE [status |-> 200, success |-> TRUE, error |-> "",
                   serialNumbers |-> uniqueSerialNumbers,
                   totalFound |-> Len(uniqueSerialNumbers),
                   errors |-> SubSeq(errors, 1,
                                     IF Len(errors) < MaxErrors THEN Len(errors)
                                                                ELSE MaxErrors)]

\* the values a file spells: a serial in lower case, the same serial in upper
\* case between blanks, another serial, and a value with a blank and a dash
\* inside
FileValues ==
    {<<"p", "f", "1", "a", "b", "c", "d", "e">>,
     <<" ", "P", "F", "1", "A", "B", "C", "D", "E", " ">>,
     <<"P", "C", "1", "2", "3", "4", "5", "6">>,
     <<"P", "F", "1", " ", "-", "A", "B">>}

\* what follows a value: a line end (CR LF), a comma, a semicolon or a tab
FileSeparators == {<<"\r", "\n">>, <<",">>, <<";">>, <<"\t">>}

\* the pieces file contents are made of: a value and what follows it
Pieces == {value \o sep : value \in FileValues, sep \in FileSeparators}

\* n values too short, one to a line
RECURSIVE InvalidLines(_)
InvalidLines(n) ==
    IF n = 0 THEN <<>> ELSE <<"P", "F", "1", "\n">> \o InvalidLines(n - 1)

Contents ==
    {Flatten(pieces) : pieces \in SeqsUpTo(Pieces, MaxPieces)}
    \cup {InvalidLines(n) \o tail :
            n \in {MaxErrors, MaxErrors + 1},
            tail \in {<<>>, <<"P", "F", "1", "A", "B", "C", "D", "E">>}}

Uploads == {NoFile} \cup {File(csv, content) : csv \in BOOLEAN, content \in Contents}

InitUpload ==
    /\ InitService
    /\ fin \in Uploads
    /\ fout = <<>>

PostParse ==
    /\ fout = <<>>
    /\ fout' = <<ParseResponse(fin)>>
    /\ UNCHANGED <<engineVars, fin>>

NextUpload == PostParse

SpecUpload == InitUpload /\ [][NextUpload]_vars

\* the position of the first of the values that is spelled serial
FirstOccurrence(values, serial) ==
    CHOOSE i \in 1 .. Len(values) :
        /\ values[i] = serial
        /\ \A j \in 1 .. (i - 1) : values[j] # serial

\* C32: a success response of POST /parse returns serials that are trimmed,
\* upper case and match [A-Z0-9]{6,15}, none of them twice, in the order of
\* their first occurrence in the file, with totalFound their number and at
\* least 1, and at most 10 error messages; a file without a valid serial is
\* answered with status 400
C32_UploadParsing ==
    fout # <<>> =>
        LET response == fout[1]
            returned == response.serialNumbers
            cleaned == IF fin.k = "none" THEN <<>> ELSE Cleaned(fin)
            first == [i \in 1 .. Len(returned) |-> FirstOccurrence(cleaned, returned[i])]
        IN  /\ response.success =>
                /\ response.status = 200
                /\ \A i \in 1 .. Len(returned) :
                      /\ Normalized(returned[i])
                      /\ trim(returned[i]) = returned[i]
                      /\ toUpperCase(returned[i]) = returned[i]
                      /\ returned[i] \in Range(cleaned)
                /\ \A i, j \in 1 .. Len(returned) :
                      i < j => returned[i] # returned[j] /\ first[i] < first[j]
                /\ response.totalFound = Len(returned)
                /\ response.totalFound >= 1
                /\ Len(response.errors) <= MaxErrors
            /\ (\A serial \in Range(cleaned) : ~Normalized(serial))
                  => response.status = 400 /\ ~response.success

\* a file that spells one serial in lower case, then another serial, then the
\* first one again in upper case, was answered with the two serials in that
\* order
C32_Witness ==
    /\ fout # <<>>
    /\ fin.k = "file"
    /\ Len(Cleaned(fin)) = 3
    /\ fin.content[1] = "p"
    /\ Cleaned(fin)[1] = Cleaned(fin)[3]
    /\ Cleaned(fin)[1] # Cleaned(fin)[2]
    /\ fout[1].success
    /\ fout[1].totalFound = 2
    /\ fout[1].serialNumbers = <<Cleaned(fin)[1], Cleaned(fin)[2]>>

\* a file with more than 10 values of a wrong format and one valid serial was
\* answered with 10 error messages
C32_WitnessErrors ==
    /\ fout # <<>>
    /\ fout[1].success
    /\ Len(Cleaned(fin)) > MaxErrors + 1
    /\ Len(fout[1].errors) = MaxErrors


-----------------------------------------------------------------------------
(* The front end: the WarrantyLookupApp object is held in fin, the document *)
(* (its filter inputs, page buttons and sections) in fout                   *)

\* this.itemsPerPage = 20
ItemsPerPage == 20

\* const maxVisiblePages = 7
MaxVisiblePages == 7

\* full pages a kind of result can fill in a response
MaxFullPages == 1

DigitSeq == <<"0", "1", "2", "3", "4", "5", "6", "7", "8", "9">>

\* String.prototype.toLowerCase
toLowerCase(str) ==
    [i \in 1 .. Len(str) |->
        IF str[i] \in Range(UpperLetters)
        THEN LowerLetters[CHOOSE j \in 1 .. Len(UpperLetters) : UpperLetters[j] = str[i]]
        ELSE str[i]]

\* String.prototype.includes
Includes(str, search) ==
    \E i \in 0 .. (Len(str) - Len(search)) : SubSeq(str, i + 1, i + Len(search)) = search

\* the i-th record of a response with an active warranty, and with an expired
\* one (no product name)
ActiveResult(i) ==
    [serialNumber |-> <<"P", "F", "1", "A", "B", "C", DigitSeq[(i \div 10) + 1], DigitSeq[(i % 10) + 1]>>,
     productName |-> <<"T", "4", "8", "0">>,
     warrantyStatus |-> "Active",
     daysRemaining |-> 100 + i]

ExpiredResult(i) ==
    [serialNumber |-> <<"P", "C", "2", "D", "E", "F", DigitSeq[(i \div 10) + 1], DigitSeq[(i % 10) + 1]>>,
     productName |-> <<>>,
     warrantyStatus |-> "Expired",
     daysRemaining |-> 0 - i]

\* numbers of records of a kind: none, one, and what fills pages exactly or
\* with one record more
ResultCounts == {p * ItemsPerPage + r : p \in 0 .. MaxFullPages, r \in {0, 1}}

\* result.results of a success response of POST /check: one record for each of
\* 1 to 50 serials
ResultLists ==
    {results \in {[i \in 1 .. (a + e) |-> IF i <= a THEN ActiveResult(i) ELSE ExpiredResult(i)] :
                     a \in ResultCounts, e \in ResultCounts} :
        Len(results) >= 1 /\ Len(results) <= MaxSerialNumbers}

StatusFilters == {"all", "Active", "Expired"}

\* what the search box can hold: nothing, the start of a serial, a part of a
\* product name, a text that occurs nowhere
SearchFilters == {<<>>, <<"P", "F", "1">>, <<"t", "4">>, <<"z", "z">>}

SortColumns == {"daysRemaining", "warrantyStatus"}

\* Math.ceil(length / this.itemsPerPage)
TotalPages(length) == (length + ItemsPerPage - 1) \div ItemsPerPage

Max(a, b) == IF a >= b THEN a ELSE b

\* the page buttons renderPagination creates
PageButtons(currentPage, totalPages) ==
    LET startPage == Max(1, currentPage - MaxVisiblePages \div 2)
        endPage == Min(totalPages, startPage + MaxVisiblePages - 1)
        start == IF endPage - startPage + 1 < MaxVisiblePages
                 THEN Max(1, endPage - MaxVisiblePages + 1)
                 ELSE startPage
    IN  start .. endPage

renderPagination(app, doc) ==
    LET totalPages == TotalPages(Len(app.filteredResults))
    IN  [doc EXCEPT !.prevDisabled = (app.currentPage = 1),
                    !.nextDisabled = (app.currentPage = totalPages),
                    !.pageNumbers = PageButtons(app.currentPage, totalPages)]

\* the filter callback of applyFilters
MatchesFilters(result, statusFilter, searchFilter) ==
    /\ statusFilter = "all" \/ result.warrantyStatus = statusFilter
    /\ \/ searchFilter = <<>>
       \/ Includes(toLowerCase(result.serialNumber), searchFilter)
       \/ result.productName # <<>> /\ Includes(toLowerCase(result.productName), searchFilter)

\* applyFilters on the values of the two filter inputs
applyFilters(app, doc) ==
    [app EXCEPT !.filteredResults =
                    SelectSeq(app.currentResults,
                              LAMBDA result : MatchesFilters(result, doc.statusFilter,
                                                             toLowerCase(doc.searchFilter))),
                !.currentPage = 1]

\* showLoading(show)
showLoading(doc, show) == [doc EXCEPT !.resultsHidden = show]

\* the value handleSort compares for a column: the number of days, or the
\* status in lower case by its place in the alphabet
SortValue(result, column) ==
    IF column = "daysRemaining" THEN result.daysRemaining
    ELSE IF result.warrantyStatus = "Active" THEN 1 ELSE 2

\* the comparator of handleSort
Compare(a, b, column, direction) ==
    IF SortValue(a, column) < SortValue(b, column)
    THEN (IF direction = "asc" THEN 0 - 1 ELSE 1)
    ELSE IF SortValue(a, column) > SortValue(b, column)
    THEN (IF direction = "asc" THEN 1 ELSE 0 - 1)
    ELSE 0

RECURSIVE InsertSorted(_, _, _, _)
InsertSorted(sorted, x, column, direction) ==
    IF sorted = <<>> THEN <<x>>
    ELSE IF Compare(sorted[Len(sorted)], x, column, direction) <= 0
    THEN Append(sorted, x)
    ELSE Append(InsertSorted(SubSeq(sorted, 1, Len(sorted) - 1), x, column, direction),
                sorted[Len(sorted)])

RECURSIVE SortLoop(_, _, _, _, _)
SortLoop(array, i, sorted, column, direction) ==
    IF i > Len(array) THEN sorted
    ELSE SortLoop(array, i + 1, InsertSorted(sorted, array[i], column, direction),
                  column, direction)

\* Array.prototype.sort with the comparator of handleSort (a stable sort)
Sorted(array, column, direction) == SortLoop(array, 1, <<>>, column, direction)

\* constructor(); the document as loaded has no page buttons and its results
\* section hidden
InitFrontEnd ==
    /\ InitService
    /\ fin = [currentResults |-> <<>>, filteredResults |-> <<>>, currentPage |-> 1,
              sortColumn |-> "", sortDirection |-> "asc"]
    /\ fout = [statusFilter |-> "all", searchFilter |-> <<>>, pageNumbers |-> {},
               prevDisabled |-> FALSE, nextDisabled |-> FALSE, resultsHidden |-> TRUE]

\* performWarrantyCheck on a success response: the results are stored,
\* showResults applies the filters and the results section is shown
PerformWarrantyCheck(results) ==
    /\ fin' = applyFilters([fin EXCEPT !.currentResults = results,
                                       !.filteredResults = results], fout)
    /\ fout' = showLoading(renderPagination(fin', fout), FALSE)
    /\ UNCHANGED engineVars

\* performWarrantyCheck on a failure: a toast, then showLoading(false)
PerformWarrantyCheckFails ==
    /\ fout' = showLoading(fout, FALSE)
    /\ UNCHANGED <<engineVars, fin>>

\* a change of the status filter or an input in the search box
ApplyFilters(statusFilter, searchFilter) ==
    /\ ~fout.resultsHidden
    /\ statusFilter = fout.statusFilter \/ searchFilter = fout.searchFilter
    /\ LET doc == [fout EXCEPT !.statusFilter = statusFilter, !.searchFilter = searchFilter]
       IN  /\ fin' = applyFilters(fin, doc)
           /\ fout' = renderPagination(fin', doc)
    /\ UNCHANGED engineVars

\* a click on a column header
HandleSort(column) ==
    /\ ~fout.resultsHidden
    /\ LET direction == IF fin.sortColumn = column
                        THEN (IF fin.sortDirection = "asc" THEN "desc" ELSE "asc")
                        ELSE "asc"
       IN  fin' = [fin EXCEPT !.sortColumn = column,
                              !.sortDirection = direction,
                              !.filteredResults = Sorted(@, column, direction)]
    /\ UNCHANGED <<engineVars, fout>>

\* goToPage(page)
goToPage(page) ==
    /\ fin' = [fin EXCEPT !.currentPage = page]
    /\ fout' = renderPagination(fin', fout)
    /\ UNCHANGED engineVars

\* changePage(delta), from the previous and next buttons
ChangePage(delta) ==
    /\ ~fout.resultsHidden
    /\ LET totalPages == TotalPages(Len(fin.filteredResults))
           newPage == fin.currentPage + delta
       IN  IF newPage >= 1 /\ newPage <= totalPages
           THEN goToPage(newPage)
           ELSE UNCHANGED vars

\* a click on one of the page buttons the document holds
GoToPage(page) ==
    /\ ~fout.resultsHidden
    /\ page \in fout.pageNumbers
    /\ goToPage(page)

\* resetApp: the lists and the page are reset, the filter inputs cleared and
\* showLoading(false) called; the page buttons are left as they are
ResetApp ==
    /\ ~fout.resultsHidden
    /\ fin' = [fin EXCEPT !.currentResults = <<>>, !.filteredResults = <<>>,
                          !.currentPage = 1]
    /\ fout' = showLoading([fout EXCEPT !.statusFilter = "all", !.searchFilter = <<>>],
                           FALSE)
    /\ UNCHANGED engineVars

NextFrontEnd ==
    \/ \E results \in ResultLists : PerformWarrantyCheck(results)
    \/ PerformWarrantyCheckFails
    \/ \E statusFilter \in StatusFilters, searchFilter \in SearchFilters :
          ApplyFilters(statusFilter, searchFilter)
    \/ \E column \in SortColumns : HandleSort(column)
    \/ \E delta \in {0 - 1, 1} : ChangePage(delta)
    \/ \E page \in 1 .. TotalPages(MaxSerialNumbers) : GoToPage(page)
    \/ ResetApp

SpecFrontEnd == InitFrontEnd /\ [][NextFrontEnd]_vars

\* C33: after any sequence of new results, applyFilters, handleSort,
\* changePage, goToPage from a page button of the document and resetApp,
\* currentPage is at least 1 and at most max(1, ceil(filteredResults.length /
\* 20)); changePage with a target out of range leaves currentPage as it is,
\* and applyFilters and resetApp set it to 1
C33_PageInRange ==
    /\ [](/\ fin.currentPage >= 1
          /\ fin.currentPage <= Max(1, TotalPages(Len(fin.filteredResults))))
    /\ [][\A delta \in {0 - 1, 1} :
             (/\ ChangePage(delta)
              /\ \/ fin.currentPage + delta < 1
                 \/ fin.currentPage + delta > TotalPages(Len(fin.filteredResults)))
                => fin'.currentPage = fin.currentPage]_vars
    /\ [][((\E statusFilter \in StatusFilters, searchFilter \in SearchFilters :
               ApplyFilters(statusFilter, searchFilter))
           \/ ResetApp) => fin'.currentPage = 1]_vars

=============================================================================
